---- MODULE Spec2Model ----
(***************************************************************************)
(* Model of the nipart Commander loop (daemon/commander/commander_thread.rs)*)
(* together with the event classification of lib/plugin.rs and lib/event.rs.*)
(* WorkFlow, WorkFlowQueue, PluginRoles and NipartLogEntry are used by the  *)
(* Commander but their sources are not part of src/; they are modelled from *)
(* the design document (sections 3, 4.1, 4.2 and 5).                        *)
(***************************************************************************)
EXTENDS Integers, Sequences, FiniteSets, TLC

(* ------------------------------------------------------------------ *)
(* Bounds of the model                                                  *)
(* ------------------------------------------------------------------ *)
MaxUuid == 2
MaxInbound == 1
MaxTime == 9999
TimeStep == 5000
NumPlugins == 2
CountCap == 2
MaxErrs == 1
FlowStep == 500
MaxFlowTime == 8000
\* the longest list of states given to merge_states
MaxStates == 2
\* the most events handed to the nispor plugin in one run
MaxEvents == 3
\* capacity of commander_to_switch (MaxInbound is that of switch_to_commander)
MaxOutbound == 1

(* ------------------------------------------------------------------ *)
(* Program constants                                                    *)
(* ------------------------------------------------------------------ *)
WORKFLOW_QUEUE_CHECK_INTERVAL == 5000
DEFAULT_TIMEOUT == 30000

\* the timeouts a sender puts into an event
Timeouts == {2000}

Uuids == 1..MaxUuid

Min(a, b) == IF a < b THEN a ELSE b

(* ------------------------------------------------------------------ *)
(* lib/event.rs, lib/plugin.rs : the event record and its kinds         *)
(* ------------------------------------------------------------------ *)
NipartUserEvent ==
    {"None", "Quit", "Error", "QueryPluginInfo", "QueryPluginInfoReply",
     "ChangeLogLevel", "QueryLogLevel", "QueryLogLevelReply",
     "QueryNetState", "QueryNetStateReply", "ApplyNetState",
     "ApplyNetStateReply", "QueryCommits", "QueryCommitsReply", "Log"}

NipartPluginEvent ==
    {"None", "Quit", "QueryPluginInfo", "QueryPluginInfoReply",
     "ChangeLogLevel", "QueryLogLevel", "QueryLogLevelReply",
     "QueryNetState", "QueryRelatedNetState", "QueryNetStateReply",
     "ApplyNetState", "ApplyNetStateReply", "QueryDhcpConfig",
     "QueryDhcpConfigReply", "ApplyDhcpConfig", "ApplyDhcpConfigReply",
     "GotDhcpLease", "ApplyDhcpLease", "ApplyDhcpLeaseReply",
     "RegisterMonitorRule", "RemoveMonitorRule", "GotMonitorEvent"}

NipartEventAddress ==
    {"User", "Unicast", "Daemon", "Commander", "Dhcp", "Group", "AllPlugins"}

\* NipartEvent: `detail` carries the payload of the kind that matters here
\* (the error kind of Error, the level of Log, the content of a reply), ""
\* otherwise. NipartEvent::new sets postpone_millis to 0.
NipartEvent(uuid, user, detail, plugin, src, dst, timeout) ==
    [uuid |-> uuid, user |-> user, detail |-> detail, plugin |-> plugin,
     src |-> src, dst |-> dst, timeout |-> timeout, postpone_millis |-> 0]

\* is_reply without the ApplyDhcpLeaseReply arm
is_reply_NoLeaseReply(plugin) ==
    plugin \in {"QueryPluginInfoReply", "QueryLogLevelReply",
                "QueryNetStateReply", "ApplyNetStateReply",
                "QueryDhcpConfigReply", "ApplyDhcpConfigReply",
                "GotMonitorEvent"}

\* is_reply with GotDhcpLease taken for a reply
is_reply_WithLease(plugin) ==
    plugin \in {"QueryPluginInfoReply", "QueryLogLevelReply",
                "QueryNetStateReply", "ApplyNetStateReply",
                "QueryDhcpConfigReply", "ApplyDhcpConfigReply",
                "ApplyDhcpLeaseReply", "GotMonitorEvent", "GotDhcpLease"}

\* NipartPluginEvent::is_reply
is_reply(plugin) ==
    plugin \in {"QueryPluginInfoReply", "QueryLogLevelReply",
                "QueryNetStateReply", "ApplyNetStateReply",
                "QueryDhcpConfigReply", "ApplyDhcpConfigReply",
                "ApplyDhcpLeaseReply", "GotMonitorEvent"}

\* impl From<NipartError> for NipartEvent (a fresh event; the caller sets
\* the uuid and the destination of the workflow it answers)
ErrorEvent(uuid, kind, dst) ==
    NipartEvent(uuid, "Error", kind, "None", "Daemon", dst, DEFAULT_TIMEOUT)

\* NipartLogEntry::new(level, message).to_event(uuid, src)
LogEntryToEvent(uuid, level, src) ==
    NipartEvent(uuid, "Log", level, "None", src, "User", DEFAULT_TIMEOUT)

IsLog(ev) == ev.user = "Log"

(* ------------------------------------------------------------------ *)
(* PluginRoles (daemon crate, source not available): role -> plugins    *)
(* ------------------------------------------------------------------ *)
\* PluginRoles::all_plugin_count
all_plugin_count == NumPlugins

\* number of plugins holding one role: every role has a single holder
role_plugin_count == 1

(* ------------------------------------------------------------------ *)
(* WorkFlow (daemon crate, source not available; design sections 3, 4.2)*)
(* ------------------------------------------------------------------ *)
Task(plugin, dst, reply, expected) ==
    [plugin |-> plugin, dst |-> dst, reply |-> reply, expected |-> expected]

\* A workflow: correlation uuid, originating user kind, source address,
\* deadline, ordered tasks, cursor (1-based index of the current task),
\* `started` (the request of the current task was emitted), `got` (replies
\* absorbed by the current task), the user kind of the terminal reply,
\* `data` (ShareData: the contents of the replies absorbed by the current
\* task, in arrival order), `failed` (the error kind of Failed, "" while
\* the workflow has not failed), `retries` (apply+verify repetitions so
\* far) and `since` (when the request of the current task was emitted).
WorkFlow(uuid, user, src, timeout, now, tasks, reply) ==
    [uuid |-> uuid, user |-> user, src |-> src, timeout |-> timeout,
     deadline |-> now + Min(timeout, DEFAULT_TIMEOUT),
     tasks |-> tasks, cursor |-> 1, started |-> FALSE, got |-> 0,
     reply |-> reply, data |-> <<>>, failed |-> "", retries |-> 0,
     since |-> now]

new_query_plugin_info(uuid, count, timeout, now) ==
    WorkFlow(uuid, "QueryPluginInfo", "User", timeout, now,
        <<Task("QueryPluginInfo", "AllPlugins", "QueryPluginInfoReply", count)>>,
        "QueryPluginInfoReply")

new_query_log_level(uuid, count, timeout, now) ==
    WorkFlow(uuid, "QueryLogLevel", "User", timeout, now,
        <<Task("QueryLogLevel", "AllPlugins", "QueryLogLevelReply", count)>>,
        "QueryLogLevelReply")

new_change_log_level(uuid, count, timeout, now) ==
    WorkFlow(uuid, "ChangeLogLevel", "User", timeout, now,
        <<Task("ChangeLogLevel", "AllPlugins", "None", 0)>>,
        "None")

new_quit(uuid, count, timeout, now) ==
    WorkFlow(uuid, "Quit", "User", timeout, now,
        <<Task("Quit", "AllPlugins", "None", 0)>>,
        "None")

new_query_net_state(uuid, timeout, now) ==
    WorkFlow(uuid, "QueryNetState", "User", timeout, now,
        <<Task("QueryNetState", "Group", "QueryNetStateReply",
               role_plugin_count)>>,
        "QueryNetStateReply")

new_apply_net_state(uuid, timeout, now) ==
    WorkFlow(uuid, "ApplyNetState", "User", timeout, now,
        <<Task("QueryNetState", "Group", "QueryNetStateReply",
               role_plugin_count),
          Task("ApplyDhcpConfig", "Dhcp", "ApplyDhcpConfigReply",
               role_plugin_count),
          Task("ApplyNetState", "Group", "ApplyNetStateReply",
               role_plugin_count),
          Task("QueryNetState", "Group", "QueryNetStateReply",
               role_plugin_count)>>,
        "ApplyNetStateReply")

new_query_commits(uuid, timeout, now) ==
    WorkFlow(uuid, "QueryCommits", "User", timeout, now,
        <<Task("QueryNetState", "Group", "QueryNetStateReply",
               role_plugin_count)>>,
        "QueryCommitsReply")

new_apply_dhcp_lease(uuid, timeout, now) ==
    WorkFlow(uuid, "None", "Daemon", timeout, now,
        <<Task("ApplyDhcpLease", "Group", "ApplyDhcpLeaseReply",
               role_plugin_count)>>,
        "None")

\* the backoff of the verification retries (design section 4.4): it starts
\* at 500 ms, doubles, and is capped at 5 s
RETRY_BACKOFF_START == 500
RETRY_BACKOFF_MAX == 5000
Backoff(retry) == Min(RETRY_BACKOFF_START * 2 ^ (retry - 1), RETRY_BACKOFF_MAX)

\* the tasks of new_apply_net_state before any retry
APPLY_TASKS == 4

\* the current task re-applies the state after a failed verification
IsRetryTask(wf) ==
    /\ wf.user = "ApplyNetState"
    /\ wf.cursor > APPLY_TASKS
    /\ wf.tasks[wf.cursor].plugin = "ApplyNetState"

\* the current task re-queries the state to verify what was applied
IsVerifyTask(wf) ==
    /\ wf.user = "ApplyNetState"
    /\ wf.cursor > 1
    /\ wf.tasks[wf.cursor].plugin = "QueryNetState"

\* the request event of the current task; a retry is postponed by the
\* backoff
TaskEvent(wf) ==
    [NipartEvent(wf.uuid, wf.user, "", wf.tasks[wf.cursor].plugin,
                 "Commander", wf.tasks[wf.cursor].dst, wf.timeout)
        EXCEPT !.postpone_millis =
                  IF IsRetryTask(wf) THEN Backoff(wf.retries) ELSE 0]

\* the terminal event: Error(err) when the workflow failed, the positive
\* reply with the collected contents otherwise; a workflow whose source is
\* the Daemon has none
TerminalEvents(wf) ==
    IF wf.src # "User" THEN <<>>
    ELSE IF wf.failed # ""
    THEN <<ErrorEvent(wf.uuid, wf.failed, "User")>>
    ELSE <<NipartEvent(wf.uuid, wf.reply, wf.data, "None", "Commander",
                       "User", wf.timeout)>>

\* WorkFlow::is_expired
is_expired(wf, now) == now >= wf.deadline

\* WorkFlow::add_reply : the current task absorbs the replies it expects;
\* an Error reply fails the workflow
WorkFlowAddReply(wf, event) ==
    IF /\ wf.started
       /\ wf.cursor <= Len(wf.tasks)
       /\ wf.failed = ""
       /\ event.plugin = wf.tasks[wf.cursor].reply
    THEN IF event.user = "Error"
         THEN [wf EXCEPT !.failed = event.detail]
         ELSE [wf EXCEPT !.got = wf.got + 1,
                         !.data = Append(wf.data, event.detail)]
    ELSE wf

\* MergedNetworkState::verify on the replies of the verify task: a reply
\* whose state differs from the desired one is a VerificationError
VerifyFailed(wf) ==
    IsVerifyTask(wf) /\ \E i \in DOMAIN wf.data : wf.data[i] = "Differs"

\* the workflow moves to the task after the current one
NextTask(wf) ==
    [wf EXCEPT !.cursor = wf.cursor + 1, !.started = FALSE, !.got = 0,
               !.data = IF wf.cursor < Len(wf.tasks) THEN <<>> ELSE wf.data]

\* after a VerificationError: one more apply and one more verify task
WithRetry(wf) ==
    [wf EXCEPT !.tasks = wf.tasks \o
                  <<Task("ApplyNetState", "Group", "ApplyNetStateReply",
                         role_plugin_count),
                    Task("QueryNetState", "Group", "QueryNetStateReply",
                         role_plugin_count)>>,
               !.retries = wf.retries + 1]

\* WorkFlow::process moving on without waiting for the replies of a task
RECURSIVE WorkFlowProcess_NoWait(_)
WorkFlowProcess_NoWait(wf) ==
    IF wf.failed # "" \/ wf.cursor > Len(wf.tasks)
    THEN [wf |-> wf, events |-> TerminalEvents(wf), done |-> TRUE]
    ELSE LET r == WorkFlowProcess_NoWait(NextTask(wf))
         IN [r EXCEPT !.events = <<TaskEvent(wf)>> \o r.events]

\* WorkFlow::process : run every task whose prerequisites are met
RECURSIVE WorkFlowProcess(_)
WorkFlowProcess(wf) ==
    IF wf.failed # "" \/ wf.cursor > Len(wf.tasks)
    THEN [wf |-> wf, events |-> TerminalEvents(wf), done |-> TRUE]
    ELSE IF ~wf.started
    THEN LET r == WorkFlowProcess([wf EXCEPT !.started = TRUE])
         IN [r EXCEPT !.events = <<TaskEvent(wf)>> \o r.events]
    ELSE IF wf.got >= wf.tasks[wf.cursor].expected
    THEN IF VerifyFailed(wf)
         THEN WorkFlowProcess(NextTask(WithRetry(wf)))
         ELSE WorkFlowProcess(NextTask(wf))
    ELSE [wf |-> wf, events |-> <<>>, done |-> FALSE]

\* WorkFlow::process at the time `now`: the workflow remembers when it
\* emitted the request it is waiting for
ProcessAt(wf, now) ==
    CHOOSE r \in {IF w.events = <<>> THEN w
                  ELSE [w EXCEPT !.wf = [w.wf EXCEPT !.since = now]] :
                     w \in {WorkFlowProcess(wf)}} : TRUE

(* ------------------------------------------------------------------ *)
(* WorkFlowQueue (source not available): mapping uuid -> WorkFlow       *)
(* ------------------------------------------------------------------ *)
WorkFlowQueueNew == [u \in {} |-> {}]

Remove(q, u) == [v \in (DOMAIN q) \ {u} |-> q[v]]

\* WorkFlowQueue::add_workflow
add_workflow(q, wf) ==
    [v \in (DOMAIN q) \cup {wf.uuid} |-> IF v = wf.uuid THEN wf ELSE q[v]]

\* WorkFlowQueue::add_reply : deliver to the workflow with the same uuid,
\* otherwise log and drop
add_reply(q, event) ==
    IF event.uuid \in DOMAIN q
    THEN [q EXCEPT ![event.uuid] = WorkFlowAddReply(q[event.uuid], event)]
    ELSE q

\* WorkFlowQueue::process : walk the live workflows in the (unspecified)
\* iteration order `order`, retire the expired and the terminated ones
RECURSIVE QueueProcess(_, _, _)
QueueProcess(q, now, order) ==
    IF order = <<>> THEN [queue |-> q, events |-> <<>>]
    ELSE LET u == Head(order)
             rest == Tail(order)
         IN IF u \notin DOMAIN q THEN QueueProcess(q, now, rest)
            ELSE IF is_expired(q[u], now)
            THEN LET r == QueueProcess(Remove(q, u), now, rest)
                 IN [r EXCEPT !.events =
                        <<ErrorEvent(u, "Timeout", q[u].src)>> \o r.events]
            ELSE LET w == ProcessAt(q[u], now)
                     q2 == IF w.done THEN Remove(q, u)
                           ELSE [q EXCEPT ![u] = w.wf]
                     r == QueueProcess(q2, now, rest)
                 IN [r EXCEPT !.events = w.events \o r.events]

\* the iteration orders of a map with the keys S
Orders(S) == {o \in [1..Cardinality(S) -> S] :
                 \A i, j \in 1..Cardinality(S) : i # j => o[i] # o[j]}

(* ------------------------------------------------------------------ *)
(* daemon/commander/commander_thread.rs                                 *)
(* ------------------------------------------------------------------ *)
\* Every handler below returns a record:
\*   ok       the Result of the handler (FALSE = Err)
\*   queue    the workflow queue it leaves
\*   sends    the events it sends on commander_to_switch, in order
\*   advanced how many times it ran process_workflow_queue
\*   replies  how many times it called WorkFlowQueue::add_reply
\*   added    the uuids it passed to WorkFlowQueue::add_workflow
Result(ok, q, sends, advanced, replies, added) ==
    [ok |-> ok, queue |-> q, sends |-> sends, advanced |-> advanced,
     replies |-> replies, added |-> added]

\* log_to_user leaving the log event the uuid NipartEvent::new drew for it
log_to_user_OwnUuid(uuid, level) == LogEntryToEvent(0, level, "Commander")

\* log_to_user: the event it sends
log_to_user(uuid, level) == LogEntryToEvent(uuid, level, "Commander")

\* the for loop sending every routing event twice
RECURSIVE SendWithLogsTwice(_)
SendWithLogsTwice(events) ==
    IF events = <<>> THEN <<>>
    ELSE <<log_to_user(Head(events).uuid, "Debug"),
           log_to_user(Head(events).uuid, "Trace"),
           Head(events), Head(events)>> \o SendWithLogsTwice(Tail(events))

\* the for loop logging the routing events without sending them
RECURSIVE SendLogsOnly(_)
SendLogsOnly(events) ==
    IF events = <<>> THEN <<>>
    ELSE <<log_to_user(Head(events).uuid, "Debug"),
           log_to_user(Head(events).uuid, "Trace")>>
         \o SendLogsOnly(Tail(events))

\* the for loop sending each routing event ahead of its two log events
RECURSIVE SendWithLogs_EventFirst(_)
SendWithLogs_EventFirst(events) ==
    IF events = <<>> THEN <<>>
    ELSE <<Head(events),
           log_to_user(Head(events).uuid, "Debug"),
           log_to_user(Head(events).uuid, "Trace")>>
         \o SendWithLogs_EventFirst(Tail(events))

\* the body of the for loop of process_workflow_queue
RECURSIVE SendWithLogs(_)
SendWithLogs(events) ==
    IF events = <<>> THEN <<>>
    ELSE <<log_to_user(Head(events).uuid, "Debug"),
           log_to_user(Head(events).uuid, "Trace"),
           Head(events)>> \o SendWithLogs(Tail(events))

\* process_workflow_queue; `fail` is WorkFlowQueue::process returning Err
process_workflow_queue(q, now, order, fail) ==
    IF fail
    THEN Result(FALSE, q, <<>>, 1, 0, {})
    ELSE LET r == QueueProcess(q, now, order)
         IN Result(TRUE, r.queue, SendWithLogs(r.events), 1, 0, {})

\* process_plugin_event enqueueing the lease workflow into a new queue
process_plugin_event_DropsQueue(event, q, now, order, fail) ==
    IF is_reply(event.plugin)
    THEN LET r == process_workflow_queue(add_reply(q, event), now, order, fail)
         IN [r EXCEPT !.replies = 1]
    ELSE IF event.plugin = "GotDhcpLease"
    THEN LET wf == new_apply_dhcp_lease(event.uuid, event.timeout, now)
             r == process_workflow_queue(add_workflow(WorkFlowQueueNew, wf),
                                         now, order, fail)
         IN [r EXCEPT !.sends = <<log_to_user(event.uuid, "Debug")>> \o r.sends,
                      !.added = {event.uuid}]
    ELSE Result(TRUE, q, <<>>, 0, 0, {})

\* process_plugin_event building a user workflow for the lease
process_plugin_event_UserLease(event, q, now, order, fail) ==
    IF is_reply(event.plugin)
    THEN LET r == process_workflow_queue(add_reply(q, event), now, order, fail)
         IN [r EXCEPT !.replies = 1]
    ELSE IF event.plugin = "GotDhcpLease"
    THEN LET wf == new_quit(event.uuid, all_plugin_count, event.timeout, now)
             r == process_workflow_queue(add_workflow(q, wf), now, order, fail)
         IN [r EXCEPT !.sends = <<log_to_user(event.uuid, "Debug")>> \o r.sends,
                      !.added = {event.uuid}]
    ELSE Result(TRUE, q, <<>>, 0, 0, {})

\* process_plugin_event with the is_reply test negated
process_plugin_event_Negated(event, q, now, order, fail) ==
    IF ~is_reply(event.plugin)
    THEN LET r == process_workflow_queue(add_reply(q, event), now, order, fail)
         IN [r EXCEPT !.replies = 1]
    ELSE IF event.plugin = "GotDhcpLease"
    THEN LET wf == new_apply_dhcp_lease(event.uuid, event.timeout, now)
             r == process_workflow_queue(add_workflow(q, wf), now, order, fail)
         IN [r EXCEPT !.sends = <<log_to_user(event.uuid, "Debug")>> \o r.sends,
                      !.added = {event.uuid}]
    ELSE Result(TRUE, q, <<>>, 0, 0, {})

\* process_plugin_event
process_plugin_event(event, q, now, order, fail) ==
    IF is_reply(event.plugin)
    THEN LET r == process_workflow_queue(add_reply(q, event), now, order, fail)
         IN [r EXCEPT !.replies = 1]
    ELSE IF event.plugin = "GotDhcpLease"
    THEN LET wf == new_apply_dhcp_lease(event.uuid, event.timeout, now)
             r == process_workflow_queue(add_workflow(q, wf), now, order, fail)
         IN [r EXCEPT !.sends = <<log_to_user(event.uuid, "Debug")>> \o r.sends,
                      !.added = {event.uuid}]
    ELSE Result(TRUE, q, <<>>, 0, 0, {})

\* the match of process_user_event without the QueryCommits arm
HasFactory_NoCommits(user) ==
    user \in {"QueryPluginInfo", "QueryLogLevel", "ChangeLogLevel", "Quit",
              "QueryNetState", "ApplyNetState"}

\* the user kinds process_user_event has a workflow factory for
HasFactory(user) ==
    user \in {"QueryPluginInfo", "QueryLogLevel", "ChangeLogLevel", "Quit",
              "QueryNetState", "ApplyNetState", "QueryCommits"}

\* the match of process_user_event handing the count of one role to the
\* factories of the all-plugins workflows
Factory_RoleCount(event, now) ==
    CASE event.user = "QueryPluginInfo" ->
            new_query_plugin_info(event.uuid, role_plugin_count,
                                  event.timeout, now)
      [] event.user = "QueryLogLevel" ->
            new_query_log_level(event.uuid, role_plugin_count,
                                event.timeout, now)
      [] event.user = "ChangeLogLevel" ->
            new_change_log_level(event.uuid, all_plugin_count,
                                 event.timeout, now)
      [] event.user = "Quit" ->
            new_quit(event.uuid, all_plugin_count, event.timeout, now)
      [] event.user = "QueryNetState" ->
            new_query_net_state(event.uuid, event.timeout, now)
      [] event.user = "ApplyNetState" ->
            new_apply_net_state(event.uuid, event.timeout, now)
      [] event.user = "QueryCommits" ->
            new_query_commits(event.uuid, event.timeout, now)

\* the match of process_user_event
Factory(event, now) ==
    CASE event.user = "QueryPluginInfo" ->
            new_query_plugin_info(event.uuid, all_plugin_count,
                                  event.timeout, now)
      [] event.user = "QueryLogLevel" ->
            new_query_log_level(event.uuid, all_plugin_count,
                                event.timeout, now)
      [] event.user = "ChangeLogLevel" ->
            new_change_log_level(event.uuid, all_plugin_count,
                                 event.timeout, now)
      [] event.user = "Quit" ->
            new_quit(event.uuid, all_plugin_count, event.timeout, now)
      [] event.user = "QueryNetState" ->
            new_query_net_state(event.uuid, event.timeout, now)
      [] event.user = "ApplyNetState" ->
            new_apply_net_state(event.uuid, event.timeout, now)
      [] event.user = "QueryCommits" ->
            new_query_commits(event.uuid, event.timeout, now)

\* process_user_event returning after add_workflow
process_user_event_NoAdvance(event, q, now, order, fail) ==
    IF ~HasFactory(event.user)
    THEN Result(TRUE, q, <<>>, 0, 0, {})
    ELSE Result(TRUE, add_workflow(q, Factory(event, now)), <<>>, 0, 0,
                {event.uuid})

\* process_user_event
process_user_event(event, q, now, order, fail) ==
    IF ~HasFactory(event.user)
    THEN Result(TRUE, q, <<>>, 0, 0, {})
    ELSE LET wf == Factory(event, now)
             r == process_workflow_queue(add_workflow(q, wf), now, order, fail)
         IN [r EXCEPT !.added = {event.uuid}]

\* process_event classifying by the user kind first
process_event_UserFirst(event, q, now, order, fail) ==
    IF event.user # "None"
    THEN process_user_event(event, q, now, order, fail)
    ELSE process_plugin_event(event, q, now, order, fail)

\* process_event
process_event(event, q, now, order, fail) ==
    IF event.plugin # "None"
    THEN process_plugin_event(event, q, now, order, fail)
    ELSE process_user_event(event, q, now, order, fail)

\* the tick branch of the select! of commander_thread
TickBranch(q, now, order, fail) ==
    process_workflow_queue(q, now, order, fail)

\* the recv branch of the select! of commander_thread
RecvBranch(event, q, now, order, fail) ==
    LET r == process_event(event, q, now, order, fail)
    IN [r EXCEPT !.sends = <<log_to_user(event.uuid, "Debug"),
                             log_to_user(event.uuid, "Trace")>> \o r.sends]

\* a loop that ends on the first Err
AfterIterationExit(ok) == IF ok THEN "wait" ELSE "stopped"

\* `if let Err(e) = select! {..} { log::error!(..) }` inside `loop`: the
\* next position of the Commander after an iteration with the given Result
AfterIteration(ok) == "wait"

(* ------------------------------------------------------------------ *)
(* State                                                                *)
(* ------------------------------------------------------------------ *)
VARIABLES
    inbound,    \* switch_to_commander: events waiting for the Commander
    queue,      \* workflow_queue of commander_thread
    clock,      \* wall clock in milliseconds
    nextTick,   \* when workflow_queue_check_interval fires next
    pc,         \* position of commander_thread: "wait" in select!, "stopped"
    closed,     \* the Switch dropped the receiver of commander_to_switch
    lastStep,   \* what the latest loop iteration did
    nextUuid,   \* the next uuid NipartEvent::new hands out
    created,    \* per uuid: source of the workflow created for it, or ""
    userSent,   \* per uuid: events with dst=User placed on the channel
    termSent,   \* per uuid: of these, the events that are not log events
    timedOut,   \* uuids for which Error(Timeout) was sent
    lateLog,    \* uuids for which a reply was received and logged after that
    lateEvent,  \* uuids for which another event was sent after that
    errs,       \* loop iterations that ended with Err
    nispor,     \* the nispor plugin: the event it handles, what it sent
    net,        \* a NetworkState computation: its operands, position, result
    cli,        \* the `show` command of the CLI: flags, position, result
    wire        \* the two channels at the grain of one send (SpecWire)

vars == <<inbound, queue, clock, nextTick, pc, closed, lastStep,
          nextUuid, created, userSent, termSent, timedOut, lateLog, lateEvent,
          errs, nispor, net, cli, wire>>

\* the components outside the Commander, and their state before they run
others == <<nispor, net, cli, wire>>
Idle == [pc |-> "idle"]
InitOthers == nispor = Idle /\ net = Idle /\ cli = Idle /\ wire = Idle

NoEvent == NipartEvent(0, "None", "", "None", "", "", 0)

Init ==
    /\ inbound = <<>>
    /\ queue = WorkFlowQueueNew
    /\ clock = 0
    /\ nextTick = WORKFLOW_QUEUE_CHECK_INTERVAL
    /\ pc = "wait"
    /\ closed = FALSE
    /\ lastStep = [kind |-> "init", advanced |-> 0, replies |-> 0, added |-> {}, ok |-> TRUE]
    /\ nextUuid = 1
    /\ created = [u \in Uuids |-> ""]
    /\ userSent = [u \in Uuids |-> 0]
    /\ termSent = [u \in Uuids |-> 0]
    /\ timedOut = {}
    /\ lateLog = {}
    /\ lateEvent = {}
    /\ errs = 0
    /\ InitOthers

(* ------------------------------------------------------------------ *)
(* Environment: the Switch, the users and the plugins behind it, time   *)
(* ------------------------------------------------------------------ *)
\* the events that make the Commander create a workflow; their sender
\* built them with NipartEvent::new, which draws a fresh uuid
IsRequest(user, plugin) ==
    \/ plugin = "GotDhcpLease"
    \/ plugin = "None" /\ HasFactory(user)

\* the address of the sender of an inbound event
SenderOf(plugin) == IF plugin = "None" THEN "User" ELSE "Unicast"

\* the kinds of the events the environment of Spec sends: a request with
\* one reply, one without replies, a DHCP lease, the replies to these, and
\* a plugin kind the Commander has no use for (SpecDispatch sends every
\* kind)
EnvUserEvent == {"None", "QueryNetState", "Quit"}
EnvPluginEvent == {"None", "GotDhcpLease", "QueryNetStateReply",
                   "ApplyDhcpLeaseReply",
                   "RegisterMonitorRule"}

\* a user request or a DHCP lease notification reaches the Commander
SendRequest ==
    /\ Len(inbound) < MaxInbound
    /\ nextUuid <= MaxUuid
    /\ \E user \in EnvUserEvent, plugin \in EnvPluginEvent,
          timeout \in Timeouts :
          /\ IsRequest(user, plugin)
          /\ plugin # "None" => user = "None"
          /\ inbound' = Append(inbound,
                 NipartEvent(nextUuid, user, "", plugin,
                             SenderOf(plugin), "Commander", timeout))
    /\ nextUuid' = nextUuid + 1
    /\ UNCHANGED <<queue, clock, nextTick, pc, closed, lastStep,
                   created, userSent, termSent, timedOut, lateLog,
                   lateEvent, errs, nispor, net, cli, wire>>

\* a plugin event with the uuid of an earlier request reaches the
\* Commander: a reply (for a live or a retired workflow) or an event the
\* Commander has no use for
SendOther ==
    /\ Len(inbound) < MaxInbound
    /\ \E uuid \in 1..(nextUuid - 1), plugin \in EnvPluginEvent :
          /\ ~IsRequest("None", plugin)
          /\ plugin # "None"
          /\ inbound' = Append(inbound,
                 NipartEvent(uuid, "None", "", plugin,
                             SenderOf(plugin), "Commander",
                             DEFAULT_TIMEOUT))
    /\ UNCHANGED <<queue, clock, nextTick, pc, closed, lastStep,
                   nextUuid, created, userSent, termSent, timedOut, lateLog,
                   lateEvent, errs, nispor, net, cli, wire>>

AdvanceTime ==
    /\ clock + TimeStep <= MaxTime
    /\ clock' = clock + TimeStep
    /\ UNCHANGED <<inbound, queue, nextTick, pc, closed, lastStep,
                   nextUuid, created, userSent, termSent, timedOut, lateLog,
                   lateEvent, errs, nispor, net, cli, wire>>

\* the Switch goes away: every later send on commander_to_switch fails
SwitchClose ==
    /\ ~closed
    /\ closed' = TRUE
    /\ UNCHANGED <<inbound, queue, clock, nextTick, pc, lastStep,
                   nextUuid, created, userSent, termSent, timedOut, lateLog,
                   lateEvent, errs, nispor, net, cli, wire>>

(* ------------------------------------------------------------------ *)
(* The Commander loop                                                   *)
(* ------------------------------------------------------------------ *)
CountIn(seq, P(_)) == Cardinality({i \in DOMAIN seq : P(seq[i])})

\* the events of `sends` with dst=User and uuid u; those that are no logs
UserCount(sends, u) ==
    CountIn(sends, LAMBDA e : e.uuid = u /\ e.dst = "User")
TermCount(sends, u) ==
    CountIn(sends, LAMBDA e : e.uuid = u /\ e.dst = "User" /\ ~IsLog(e))

\* the address a workflow created from `event` answers to
SourceOf(event) == IF event.plugin = "None" THEN "User" ELSE "Daemon"

\* the effect of one loop iteration with Result r
Iterate(kind, event, r) ==
    LET placed == IF closed THEN <<>> ELSE r.sends
    IN /\ queue' = r.queue
       /\ pc' = AfterIteration(r.ok)
       /\ lastStep' = [kind |-> kind, advanced |-> r.advanced, replies |-> r.replies,
                       added |-> r.added, ok |-> r.ok]
       /\ created' = [u \in Uuids |->
                         IF u \in r.added
                         THEN SourceOf(event)
                         ELSE created[u]]
       /\ userSent' = [u \in Uuids |->
             Min(CountCap, userSent[u] + UserCount(placed, u))]
       /\ termSent' = [u \in Uuids |->
             Min(CountCap, termSent[u] + TermCount(placed, u))]
       /\ timedOut' = timedOut \cup
             {u \in Uuids : \E i \in DOMAIN r.sends :
                 /\ r.sends[i].uuid = u
                 /\ r.sends[i].user = "Error"
                 /\ r.sends[i].detail = "Timeout"}
       /\ lateLog' = lateLog \cup
             {u \in timedOut :
                 /\ kind = "event" /\ event.uuid = u /\ r.replies > 0
                 /\ \E i \in DOMAIN r.sends :
                       r.sends[i].uuid = u /\ IsLog(r.sends[i])}
       /\ lateEvent' = lateEvent \cup
             {u \in timedOut : \E i \in DOMAIN r.sends :
                 r.sends[i].uuid = u /\ ~IsLog(r.sends[i])}
       /\ errs' = IF r.ok THEN errs ELSE errs + 1

\* select! takes the tick branch
Tick ==
    /\ pc = "wait"
    /\ clock >= nextTick
    /\ nextTick' = nextTick + WORKFLOW_QUEUE_CHECK_INTERVAL
    /\ \E order \in Orders(DOMAIN queue), fail \in BOOLEAN :
          /\ fail => errs < MaxErrs
          /\ Iterate("tick", NoEvent, TickBranch(queue, clock, order, fail))
    /\ UNCHANGED <<inbound, clock, closed, nextUuid, nispor, net, cli, wire>>

\* select! takes the recv branch
Recv ==
    /\ pc = "wait"
    /\ inbound # <<>>
    /\ inbound' = Tail(inbound)
    /\ \E order \in Orders(DOMAIN queue \cup {Head(inbound).uuid}),
          fail \in BOOLEAN :
          /\ fail => errs < MaxErrs
          /\ Iterate("event", Head(inbound),
                  RecvBranch(Head(inbound), queue, clock, order, fail))
    /\ UNCHANGED <<clock, nextTick, closed, nextUuid, nispor, net, cli, wire>>

Next ==
    \/ SendRequest
    \/ SendOther
    \/ AdvanceTime
    \/ SwitchClose
    \/ Tick
    \/ Recv

Spec == Init /\ [][Next]_vars

TypeOK ==
    /\ pc \in {"wait", "stopped"}
    /\ Len(inbound) <= MaxInbound
    /\ DOMAIN queue \subseteq Uuids
    /\ clock \in 0..MaxTime

(* ------------------------------------------------------------------ *)
(* SpecDispatch: one event of every kind against a prepared queue       *)
(* ------------------------------------------------------------------ *)
\* the events that create a workflow, as the first event of a run
FirstEvents ==
    {NipartEvent(1, user, "", plugin, SenderOf(plugin),
                 "Commander", timeout) :
        user \in NipartUserEvent, plugin \in {"None", "GotDhcpLease"},
        timeout \in Timeouts}

\* The Commander has processed at most one request (uuid 1) and an event of
\* any user kind and any plugin kind is waiting on its inbound channel.
InitDispatch ==
    \E first \in {NoEvent} \cup
                 {e \in FirstEvents :
                     /\ IsRequest(e.user, e.plugin)
                     /\ e.plugin # "None" => e.user = "None"},
       user \in NipartUserEvent, plugin \in NipartPluginEvent,
       uuid \in Uuids, timeout \in Timeouts :
       LET r == IF first = NoEvent
                THEN Result(TRUE, WorkFlowQueueNew, <<>>, 0, 0, {})
                ELSE RecvBranch(first, WorkFlowQueueNew, 0, <<1>>, FALSE)
           fresh == IF first = NoEvent THEN 1 ELSE 2
       IN /\ IsRequest(user, plugin) => uuid = fresh
          /\ fresh \in Uuids
          /\ inbound = <<NipartEvent(uuid, user, "", plugin,
                                     SenderOf(plugin), "Commander",
                                     timeout)>>
          /\ queue = r.queue
          /\ clock = 0
          /\ nextTick = WORKFLOW_QUEUE_CHECK_INTERVAL
          /\ pc = "wait"
          /\ closed = FALSE
          /\ lastStep = [kind |-> IF first = NoEvent THEN "init" ELSE "event",
                         advanced |-> r.advanced, replies |-> r.replies,
                         added |-> r.added, ok |-> r.ok]
          /\ nextUuid = IF IsRequest(user, plugin) THEN fresh + 1 ELSE fresh
          /\ created = [u \in Uuids |->
                           IF u \in r.added THEN SourceOf(first) ELSE ""]
          /\ userSent = [u \in Uuids |-> Min(CountCap, UserCount(r.sends, u))]
          /\ termSent = [u \in Uuids |-> Min(CountCap, TermCount(r.sends, u))]
          /\ timedOut = {}
                /\ lateLog = {}
          /\ lateEvent = {}
          /\ errs = 0
          /\ InitOthers

NextDispatch ==
    \/ AdvanceTime
    \/ Tick
    \/ Recv

SpecDispatch == InitDispatch /\ [][NextDispatch]_vars

(* ================================================================== *)
(* Properties                                                           *)
(* ================================================================== *)
\* the step of the loop that took the recv branch, and the event it took
RecvStep == Len(inbound') < Len(inbound)
Received == Head(inbound)
\* the step of the loop that took the tick branch
TickStep == nextTick' # nextTick
CommanderStep == RecvStep \/ TickStep

\* the reply variants and the user kinds with a workflow factory, as the
\* design document lists them
ReplyVariants ==
    {"QueryPluginInfoReply", "QueryLogLevelReply", "QueryNetStateReply",
     "ApplyNetStateReply", "QueryDhcpConfigReply", "ApplyDhcpConfigReply",
     "ApplyDhcpLeaseReply", "GotMonitorEvent"}
FactoryKinds ==
    {"QueryPluginInfo", "QueryLogLevel", "ChangeLogLevel", "Quit",
     "QueryNetState", "ApplyNetState", "QueryCommits"}

\* a workflow was created for u and is no longer in the queue
Retired(u) == created[u] # "" /\ u \notin DOMAIN queue

\* In this step workflow u of the queue, holding wf after the deliveries of
\* the step, went exactly the way a queue advancement takes it on its own:
\* retired when expired or terminated, advanced otherwise, and left as it
\* is when the queue was not advanced or the advancement failed.
Advanced(u, wf) ==
    IF lastStep'.advanced = 1 /\ lastStep'.ok
    THEN IF is_expired(wf, clock) \/ ProcessAt(wf, clock).done
         THEN u \notin DOMAIN queue'
         ELSE u \in DOMAIN queue' /\ queue'[u] = ProcessAt(wf, clock).wf
    ELSE u \in DOMAIN queue' /\ queue'[u] = wf

Undisturbed(u) == Advanced(u, queue[u])

C2_ReplyAbsorbedOnce ==
    [][(RecvStep /\ Received.plugin \in ReplyVariants) =>
          /\ inbound' = Tail(inbound)
          /\ lastStep'.replies = 1
          /\ lastStep'.advanced = 1
          /\ lastStep'.added = {}
          /\ created' = created
          /\ DOMAIN queue' \subseteq DOMAIN queue
          /\ \A u \in DOMAIN queue :
                IF u = Received.uuid
                THEN Advanced(u, WorkFlowAddReply(queue[u], Received))
                ELSE Undisturbed(u)]_vars

C2_Witness ==
    /\ lastStep.kind = "event" /\ lastStep.replies = 1 /\ lastStep.ok
    /\ inbound = <<>>
    /\ \E u \in Uuids : Retired(u) /\ termSent[u] = 1 /\ u \notin timedOut

\* C3 (as stated): every received event that is neither a reply variant nor
\* GotDhcpLease creates exactly one workflow with the uuid of the event.
C3_EveryOtherEventCreates ==
    [][(RecvStep /\ Received.plugin \notin ReplyVariants \cup {"GotDhcpLease"})
          => lastStep'.added = {Received.uuid}]_vars

\* C3 (amended): a received event with plugin kind None and one of the seven
\* user kinds that have a factory creates exactly one workflow of that kind
\* with the uuid and the timeout of the event; an event with any other user
\* kind, or with a plugin kind that is neither a reply variant nor
\* GotDhcpLease, creates no workflow and leaves the queue untouched.
C3_FactoryDispatch ==
    [][(RecvStep /\ Received.plugin \notin ReplyVariants \cup {"GotDhcpLease"})
          => IF Received.plugin = "None" /\ Received.user \in FactoryKinds
             THEN /\ lastStep'.added = {Received.uuid}
                  /\ created'[Received.uuid] = "User"
                  /\ Received.uuid \in DOMAIN queue' =>
                        /\ queue'[Received.uuid].user = Received.user
                        /\ queue'[Received.uuid].uuid = Received.uuid
                        /\ queue'[Received.uuid].timeout = Received.timeout
                        /\ queue'[Received.uuid].deadline
                              = clock + Received.timeout
                  /\ (Received.uuid \notin DOMAIN queue' /\ ~closed) =>
                        termSent'[Received.uuid] = 1
             ELSE /\ lastStep'.added = {}
                  /\ lastStep'.advanced = 0
                  /\ queue' = queue
                  /\ created' = created]_vars

C3_Witness ==
    /\ lastStep.kind = "event" /\ inbound = <<>>
    /\ \E u \in lastStep.added :
          u \in DOMAIN queue /\ queue[u].user = "QueryCommits"

\* C4: receiving GotDhcpLease creates one apply_dhcp_lease workflow with the
\* uuid and the timeout of the event and advances the queue in the same
\* iteration; the workflows already queued go the way a plain advancement
\* takes them, and a reply that completes a live workflow retires it
\* whatever else is queued.
C4_LeaseWorkflowInterleaves ==
    [][/\ (RecvStep /\ Received.plugin = "GotDhcpLease") =>
             /\ lastStep'.added = {Received.uuid}
             /\ lastStep'.advanced = 1
             /\ created'[Received.uuid] = "Daemon"
             /\ Advanced(Received.uuid,
                    new_apply_dhcp_lease(Received.uuid, Received.timeout,
                                         clock))
             /\ \A u \in DOMAIN queue \ {Received.uuid} : Undisturbed(u)
       /\ (/\ RecvStep /\ Received.plugin \in ReplyVariants
           /\ Received.uuid \in DOMAIN queue
           /\ lastStep'.ok
           /\ WorkFlowProcess(
                  WorkFlowAddReply(queue[Received.uuid], Received)).done) =>
             /\ Received.uuid \notin DOMAIN queue'
             /\ \A u \in DOMAIN queue \ {Received.uuid} : Undisturbed(u)
      ]_vars

C4_Witness ==
    \E u, v \in DOMAIN queue :
        /\ lastStep.added = {u} /\ lastStep.ok
        /\ created[u] = "Daemon" /\ queue[u].started
        /\ v # u /\ created[v] = "User" /\ queue[v].started

\* C5 (as stated): a received GotDhcpLease and a received GotMonitorEvent
\* each make the Commander enqueue a new workflow.
C5_UnsolicitedCreatesWorkflow ==
    [][(RecvStep /\ Received.plugin \in {"GotDhcpLease", "GotMonitorEvent"})
          => lastStep'.added = {Received.uuid}]_vars

\* C5 (amended): a received GotDhcpLease makes the Commander enqueue a new
\* workflow in the same iteration whatever is in flight; a received
\* GotMonitorEvent is handled as a reply: it is handed to the workflow with
\* its uuid and creates no workflow.
C5_LeaseCreatesMonitorReplies ==
    [][/\ (RecvStep /\ Received.plugin = "GotDhcpLease") =>
             /\ lastStep'.added = {Received.uuid}
             /\ lastStep'.replies = 0
             /\ (~lastStep'.ok => Received.uuid \in DOMAIN queue')
       /\ (RecvStep /\ Received.plugin = "GotMonitorEvent") =>
             /\ lastStep'.added = {}
             /\ lastStep'.replies = 1
             /\ DOMAIN queue' \subseteq DOMAIN queue
      ]_vars

C5_Witness ==
    \E u \in lastStep.added, v \in DOMAIN queue :
        /\ created[u] = "Daemon"
        /\ v # u /\ created[v] = "User"
        /\ inbound = <<>>

C7_NothingAfterTimeout ==
    \A u \in timedOut : u \notin lateLog /\ u \notin lateEvent

\* C7 (amended): a successful queue advancement at or after the deadline of
\* a workflow sends Error(Timeout) with its uuid and retires it; afterwards
\* the only events sent with that uuid are log events (a late reply is
\* logged and dropped).
C7_TimeoutRetires ==
    [][/\ lateEvent' = {}
       /\ timedOut' \cap DOMAIN queue' = {}
       /\ (CommanderStep /\ lastStep'.advanced = 1 /\ lastStep'.ok) =>
             \A u \in DOMAIN queue :
                 is_expired(queue[u], clock) =>
                     u \in timedOut' /\ u \notin DOMAIN queue'
      ]_vars

C7_Witness ==
    \E u \in timedOut : u \in lateLog /\ u \notin lateEvent

\* C8: an iteration that ends with an error leaves the Commander waiting in
\* its loop, with every workflow that was queued or added still queued.
C8_ErrorKeepsLoop ==
    [][/\ pc' = "wait"
       /\ (CommanderStep /\ ~lastStep'.ok) =>
             /\ errs' = errs + 1
             /\ \A u \in DOMAIN queue \cup lastStep'.added :
                   u \in DOMAIN queue'
      ]_vars

C8_Witness ==
    /\ errs > 0 /\ lastStep.ok /\ lastStep.advanced = 1
    /\ lastStep.kind = "event" /\ pc = "wait"
    /\ DOMAIN queue # {}

\* C9 (as stated): every wake-up of the loop advances the workflow queue.
C9_EveryWakeupAdvances ==
    [][CommanderStep => lastStep'.advanced >= 1]_vars

\* C9 (amended): the queue is advanced exactly once on a tick, on a reply
\* variant, on GotDhcpLease and on a user kind that has a factory; on any
\* other event it is not advanced.
C9_AdvanceByKind ==
    [][/\ TickStep => lastStep'.advanced = 1
       /\ RecvStep => lastStep'.advanced =
             (IF \/ Received.plugin \in ReplyVariants \cup {"GotDhcpLease"}
                 \/ Received.plugin = "None" /\ Received.user \in FactoryKinds
              THEN 1 ELSE 0)
      ]_vars

C9_Witness ==
    /\ lastStep.kind = "tick" /\ lastStep.advanced = 1 /\ lastStep.ok
    /\ timedOut # {}

cvars == <<inbound, queue, clock, nextTick, pc, closed, lastStep,
           nextUuid, created, userSent, termSent, timedOut, lateLog,
           lateEvent, errs, wire>>

\* the Commander before it runs, for the specifications of the other
\* components
InitCommander ==
    /\ inbound = <<>>
    /\ queue = WorkFlowQueueNew
    /\ clock = 0
    /\ nextTick = WORKFLOW_QUEUE_CHECK_INTERVAL
    /\ pc = "wait"
    /\ closed = FALSE
    /\ lastStep = [kind |-> "init", advanced |-> 0, replies |-> 0,
                   added |-> {}, ok |-> TRUE]
    /\ nextUuid = 1
    /\ created = [u \in Uuids |-> ""]
    /\ userSent = [u \in Uuids |-> 0]
    /\ termSent = [u \in Uuids |-> 0]
    /\ timedOut = {}
    /\ lateLog = {}
    /\ lateEvent = {}
    /\ errs = 0
    /\ wire = Idle

\* the kinds of NipartError (design section 7)
ErrorKinds == {"InvalidArgument", "PluginFailure", "PluginNotFound",
               "VerificationError", "Timeout", "Bug"}

\* NipartEvent::new(..) followed by `reply.uuid = event.uuid`: a reply of
\* the plugin to the Commander
NisporReply(event, user, detail, plugin) ==
    [NipartEvent(0, user, detail, plugin, "Unicast", "Commander",
                 DEFAULT_TIMEOUT) EXCEPT !.uuid = event.uuid]

\* handle_event answering QueryNetState with the user kind of the request
handle_event_KeepsUser(event, retrieved) ==
    CASE event.plugin = "QueryNetState" ->
            IF retrieved
            THEN [ok |-> TRUE, spawn |-> FALSE,
                  sends |-> <<NisporReply(event, event.user, "",
                                          "QueryNetStateReply")>>]
            ELSE [ok |-> FALSE, spawn |-> FALSE, sends |-> <<>>]
      [] event.plugin = "QueryRelatedNetState" ->
            IF retrieved
            THEN [ok |-> TRUE, spawn |-> FALSE,
                  sends |-> <<NisporReply(event, event.user, "",
                                          "QueryRelatedNetStateReply")>>]
            ELSE [ok |-> FALSE, spawn |-> FALSE, sends |-> <<>>]
      [] event.plugin = "ApplyNetState" ->
            [ok |-> TRUE, spawn |-> TRUE, sends |-> <<>>]
      [] OTHER -> [ok |-> TRUE, spawn |-> FALSE, sends |-> <<>>]

\* handle_event running the apply itself and answering before it returns
handle_event_AwaitsApply(event, retrieved) ==
    CASE event.plugin = "QueryNetState" ->
            IF retrieved
            THEN [ok |-> TRUE, spawn |-> FALSE,
                  sends |-> <<NisporReply(event, "None", "",
                                          "QueryNetStateReply")>>]
            ELSE [ok |-> FALSE, spawn |-> FALSE, sends |-> <<>>]
      [] event.plugin = "QueryRelatedNetState" ->
            IF retrieved
            THEN [ok |-> TRUE, spawn |-> FALSE,
                  sends |-> <<NisporReply(event, event.user, "",
                                          "QueryRelatedNetStateReply")>>]
            ELSE [ok |-> FALSE, spawn |-> FALSE, sends |-> <<>>]
      [] event.plugin = "ApplyNetState" ->
            [ok |-> TRUE, spawn |-> FALSE,
             sends |-> <<NisporReply(event, "None", "",
                                     "ApplyNetStateReply")>>]
      [] OTHER -> [ok |-> TRUE, spawn |-> FALSE, sends |-> <<>>]

\* NipartPluginNispor::handle_event; `retrieved` is nispor_retrieve
\* returning Ok. The result: the Result of the handler, the events sent on
\* to_daemon, and whether handle_apply was spawned.
handle_event(event, retrieved) ==
    CASE event.plugin = "QueryNetState" ->
            IF retrieved
            THEN [ok |-> TRUE, spawn |-> FALSE,
                  sends |-> <<NisporReply(event, "None", "",
                                          "QueryNetStateReply")>>]
            ELSE [ok |-> FALSE, spawn |-> FALSE, sends |-> <<>>]
      [] event.plugin = "QueryRelatedNetState" ->
            IF retrieved
            THEN [ok |-> TRUE, spawn |-> FALSE,
                  sends |-> <<NisporReply(event, event.user, "",
                                          "QueryRelatedNetStateReply")>>]
            ELSE [ok |-> FALSE, spawn |-> FALSE, sends |-> <<>>]
      [] event.plugin = "ApplyNetState" ->
            [ok |-> TRUE, spawn |-> TRUE, sends |-> <<>>]
      [] OTHER -> [ok |-> TRUE, spawn |-> FALSE, sends |-> <<>>]

\* handle_apply; `applied` is "Ok" or the error kind nispor_apply returned
handle_apply(event, applied) ==
    IF applied = "Ok"
    THEN NisporReply(event, "None", "", "ApplyNetStateReply")
    ELSE NisporReply(event, "Error", applied, "ApplyNetStateReply")

\* the plugin was handed an event of any user kind and any plugin kind
InitNispor ==
    /\ InitCommander
    /\ net = Idle
    /\ cli = Idle
    /\ \E uuid \in Uuids, user \in NipartUserEvent,
          plugin \in NipartPluginEvent :
          nispor = [pc |-> "recv",
                    event |-> NipartEvent(uuid, user, "", plugin,
                                          "Commander", "Unicast",
                                          DEFAULT_TIMEOUT),
                    sent |-> <<>>, built |-> <<>>, err |-> ""]

\* the plugin runs handle_event on the event
NisporHandleEvent ==
    /\ nispor.pc = "recv"
    /\ \E retrieved \in BOOLEAN, e \in ErrorKinds :
          LET r == handle_event(nispor.event, retrieved)
          IN nispor' = [nispor EXCEPT
                 !.pc = IF r.spawn THEN "apply" ELSE "done",
                 !.sent = r.sends,
                 !.built = r.sends,
                 !.err = IF r.ok THEN "" ELSE e]
    /\ UNCHANGED <<cvars, net, cli>>

\* the task spawned by handle_event runs handle_apply
NisporHandleApply ==
    /\ nispor.pc = "apply"
    /\ \E applied \in {"Ok"} \cup ErrorKinds :
          LET reply == handle_apply(nispor.event, applied)
          IN nispor' = [nispor EXCEPT
                 !.pc = "done",
                 !.sent = Append(nispor.sent, reply),
                 !.built = Append(nispor.built, reply)]
    /\ UNCHANGED <<cvars, net, cli>>

\* the error handle_event returned is converted into an event
NisporErrorToEvent ==
    /\ nispor.pc = "done"
    /\ nispor.err # ""
    /\ nispor' = [nispor EXCEPT
           !.pc = "reported",
           !.built = Append(nispor.built,
                            ErrorEvent(nispor.event.uuid, nispor.err, "User"))]
    /\ UNCHANGED <<cvars, net, cli>>

NextNispor ==
    \/ NisporHandleEvent
    \/ NisporHandleApply
    \/ NisporErrorToEvent

SpecNispor == InitNispor /\ [][NextNispor]_vars

\* the events the program has built so far
Built == {nispor.built[i] : i \in DOMAIN nispor.built}

\* C11 (as stated): in every event the program builds exactly one of the
\* user kind and the plugin kind is not None, except for an Error reply,
\* which has the user kind Error and the plugin kind None.
C11_ExactlyOneKind ==
    nispor.pc # "idle" =>
       \A e \in Built :
          \/ e.user = "Error" /\ e.plugin = "None"
          \/ e.user # "Error" /\ ((e.user = "None") # (e.plugin = "None"))

\* C11 (amended): an event built from an error has the user kind Error and
\* the plugin kind None; a reply to QueryNetState has the user kind None;
\* a reply to ApplyNetState has the plugin kind ApplyNetStateReply and the
\* user kind None when the apply succeeded and Error when it failed; a
\* reply to QueryRelatedNetState has the user kind of the request.
C11_KindsBySite ==
    nispor.pc # "idle" =>
       \A e \in Built :
          CASE e.plugin = "None" -> e.user = "Error"
            [] e.plugin = "QueryNetStateReply" -> e.user = "None"
            [] e.plugin = "ApplyNetStateReply" -> e.user \in {"None", "Error"}
            [] e.plugin = "QueryRelatedNetStateReply" ->
                   e.user = nispor.event.user
            [] OTHER -> FALSE

\* a failed apply was answered with an Error that has a plugin kind
C11_Witness ==
    /\ nispor.pc = "done"
    /\ \E e \in Built : e.user = "Error" /\ e.plugin = "ApplyNetStateReply"

(* ------------------------------------------------------------------ *)
(* The uuids of the events the Commander emits                          *)
(* ------------------------------------------------------------------ *)
\* the iteration orders the queue can take in this step of the loop, and
\* the events the step sends on commander_to_switch with one of them
StepOrders ==
    IF RecvStep THEN Orders(DOMAIN queue \cup {Received.uuid})
    ELSE Orders(DOMAIN queue)
Emitted(order, fail) ==
    IF RecvStep THEN RecvBranch(Received, queue, clock, order, fail).sends
    ELSE TickBranch(queue, clock, order, fail).sends

\* C12 (as stated): the uuids of the events the Commander places on its
\* outbound channel are strictly increasing in emission order (uuids are
\* numbered in the order NipartEvent::new draws them, as v7 values are).
C12_UuidsIncrease ==
    [][CommanderStep =>
          \A order \in StepOrders, fail \in BOOLEAN :
             LET s == Emitted(order, fail)
             IN \A i \in 1..(Len(s) - 1) : s[i].uuid < s[i + 1].uuid]_vars

\* C12 (amended): every event the Commander places on its outbound channel
\* carries the uuid of the event it has just received or of a workflow of
\* its queue, never a uuid of its own.
C12_UuidsAreCorrelation ==
    [][CommanderStep =>
          \A order \in StepOrders, fail \in BOOLEAN :
             LET s == Emitted(order, fail)
             IN \A i \in DOMAIN s :
                   \/ s[i].uuid \in DOMAIN queue
                   \/ RecvStep /\ s[i].uuid = Received.uuid]_vars

\* two workflows were created one after the other and both timed out:
\* events with the first uuid were emitted after events with the second
C12_Witness == ~closed /\ timedOut = {1, 2}

(* ================================================================== *)
(* SpecFlow: one workflow of any kind and the replies of the plugins    *)
(* ================================================================== *)
\* the timeouts of the requests: one shorter than the check interval, one
\* that leaves room for every step of the backoff
FlowTimeouts == {2000, MaxFlowTime}

\* the names of the plugins behind the Switch
PluginName(i) == <<"p1", "p2", "p3", "p4">>[i]

\* a request of any kind with a workflow factory is waiting for the
\* Commander
InitFlow ==
    /\ \E user \in NipartUserEvent, plugin \in {"None", "GotDhcpLease"},
          timeout \in FlowTimeouts :
          /\ IsRequest(user, plugin)
          /\ plugin # "None" => user = "None"
          /\ inbound = <<NipartEvent(1, user, "", plugin, SenderOf(plugin),
                                     "Commander", timeout)>>
    /\ queue = WorkFlowQueueNew
    /\ clock = 0
    /\ nextTick = WORKFLOW_QUEUE_CHECK_INTERVAL
    /\ pc = "wait"
    /\ closed = FALSE
    /\ lastStep = [kind |-> "init", advanced |-> 0, replies |-> 0,
                   added |-> {}, ok |-> TRUE]
    /\ nextUuid = 2
    /\ created = [u \in Uuids |-> ""]
    /\ userSent = [u \in Uuids |-> 0]
    /\ termSent = [u \in Uuids |-> 0]
    /\ timedOut = {}
    /\ lateLog = {}
    /\ lateEvent = {}
    /\ errs = 0
    /\ InitOthers

\* the replies to the current task of workflow u that are on their way
Pending(u) ==
    {i \in DOMAIN inbound : inbound[i].uuid = u /\ inbound[i].plugin # "None"}

\* the contents a plugin puts into its reply to a task
ReplyDetails(wf) ==
    LET reply == wf.tasks[wf.cursor].reply
    IN CASE reply \in {"QueryPluginInfoReply", "QueryLogLevelReply"} ->
               {PluginName(i) : i \in 1..NumPlugins}
                  \ ({wf.data[i] : i \in DOMAIN wf.data} \cup
                     {inbound[i].detail : i \in Pending(wf.uuid)})
         [] reply = "QueryNetStateReply" -> {"Same", "Differs"}
         [] OTHER -> {""}

\* A plugin answers the request of the current task of a live workflow: the
\* Switch has forwarded the request (after postpone_millis) to the plugins
\* it addresses, and each of them replies once, with its result or, when it
\* failed to apply, with an Error.
FlowReply ==
    /\ Len(inbound) < MaxInbound
    /\ \E u \in DOMAIN queue :
          LET wf == queue[u]
          IN /\ wf.started
             /\ wf.failed = ""
             /\ wf.got + Cardinality(Pending(u)) <
                   wf.tasks[wf.cursor].expected
             /\ clock >= wf.since + TaskEvent(wf).postpone_millis
             /\ \/ \E detail \in ReplyDetails(wf) :
                      inbound' = Append(inbound,
                          NipartEvent(u, "None", detail,
                                      wf.tasks[wf.cursor].reply,
                                      "Unicast", "Commander",
                                      DEFAULT_TIMEOUT))
                \/ /\ wf.tasks[wf.cursor].reply = "ApplyNetStateReply"
                   /\ \E e \in {"PluginFailure", "Bug"} :
                         inbound' = Append(inbound,
                             NipartEvent(u, "Error", e, "ApplyNetStateReply",
                                         "Unicast", "Commander",
                                         DEFAULT_TIMEOUT))
    /\ UNCHANGED <<queue, clock, nextTick, pc, closed, lastStep,
                   nextUuid, created, userSent, termSent, timedOut, lateLog,
                   lateEvent, errs, nispor, net, cli, wire>>

AdvanceFlowTime ==
    /\ clock + FlowStep <= MaxFlowTime
    /\ clock' = clock + FlowStep
    /\ UNCHANGED <<inbound, queue, nextTick, pc, closed, lastStep,
                   nextUuid, created, userSent, termSent, timedOut, lateLog,
                   lateEvent, errs, nispor, net, cli, wire>>

NextFlow ==
    \/ FlowReply
    \/ AdvanceFlowTime
    \/ Tick
    \/ Recv

SpecFlow == InitFlow /\ [][NextFlow]_vars

\* the replies the current task of workflow u has once this step is over:
\* those it had absorbed plus the one this step receives for it
Arrived(u) ==
    queue[u].got +
       (IF /\ RecvStep /\ Received.uuid = u /\ Received.user # "Error"
           /\ Received.plugin = queue[u].tasks[queue[u].cursor].reply
        THEN 1 ELSE 0)

\* the requests of tasks of workflow u that this step sends to plugins,
\* as positions in the sequence of the events it sends
TaskRequests(s, u) ==
    {j \in DOMAIN s : /\ s[j].uuid = u
                      /\ s[j].dst # "User"
                      /\ s[j].dst # "Daemon"}

\* the requests no plugin replies to
Unanswered == {"ChangeLogLevel", "Quit"}

BackoffSteps == <<500, 1000, 2000, 4000, 5000>>

\* this step receives, for the current task of workflow u, a reply that
\* reports an error / a state that differs from the desired one
GotError(u) ==
    /\ RecvStep /\ Received.uuid = u /\ Received.user = "Error"
    /\ queue[u].started
    /\ Received.plugin = queue[u].tasks[queue[u].cursor].reply
GotDiffers(u) ==
    /\ RecvStep /\ Received.uuid = u /\ Received.user # "Error"
    /\ Received.plugin = "QueryNetStateReply"
    /\ Received.detail = "Differs"
    /\ queue[u].started /\ queue[u].cursor >= APPLY_TASKS
    /\ queue[u].tasks[queue[u].cursor].reply = "QueryNetStateReply"

\* the verification of workflow u has failed: a verify reply with a state
\* that differs from the desired one is received in this step, or was
\* absorbed in an iteration whose queue advancement failed
Unverified(u) ==
    \/ GotDiffers(u)
    \/ /\ queue[u].started /\ queue[u].cursor >= APPLY_TASKS
       /\ queue[u].tasks[queue[u].cursor].reply = "QueryNetStateReply"
       /\ \E i \in DOMAIN queue[u].data : queue[u].data[i] = "Differs"

AllPluginKinds == {"QueryPluginInfo", "QueryLogLevel"}

\* C15: a QueryPluginInfo or QueryLogLevel workflow is created expecting
\* as many replies as PluginRoles::all_plugin_count gives when the user
\* event is processed; it stays in the queue while fewer replies have
\* arrived, and the step that retires it before its deadline sends one
\* terminal reply with exactly that many entries, one per plugin, whatever
\* the order of arrival.
C15_AllPluginsReply ==
    [][/\ (/\ RecvStep /\ Received.plugin = "None"
           /\ Received.user \in AllPluginKinds
           /\ Received.uuid \in DOMAIN queue') =>
             /\ Len(queue'[Received.uuid].tasks) = 1
             /\ queue'[Received.uuid].tasks[1].expected = all_plugin_count
       /\ \A u \in DOMAIN queue :
             (/\ CommanderStep /\ lastStep'.ok /\ lastStep'.advanced = 1
              /\ queue[u].user \in AllPluginKinds
              /\ queue[u].started
              /\ ~is_expired(queue[u], clock)) =>
                IF Arrived(u) < all_plugin_count
                THEN u \in DOMAIN queue'
                ELSE /\ u \notin DOMAIN queue'
                     /\ \A order \in StepOrders :
                        \A s \in {Emitted(order, FALSE)} :
                           \E j \in DOMAIN s :
                              /\ s[j].uuid = u /\ s[j].dst = "User"
                              /\ s[j].user \in {"QueryPluginInfoReply",
                                                "QueryLogLevelReply"}
                              /\ Len(s[j].detail) = all_plugin_count
                              /\ {s[j].detail[i] : i \in DOMAIN s[j].detail}
                                    = {PluginName(i) : i \in 1..NumPlugins}
                              /\ \A k \in DOMAIN s :
                                    (/\ s[k].uuid = u /\ s[k].dst = "User"
                                     /\ ~IsLog(s[k])) => k = j
      ]_vars

\* the reply of the first plugin is the last one to arrive
C15_Witness ==
    \E u \in DOMAIN queue :
       /\ queue[u].user = "QueryPluginInfo"
       /\ queue[u].got = all_plugin_count - 1
       /\ queue[u].data[1] = PluginName(NumPlugins)
       /\ inbound # <<>>
       /\ inbound[1].uuid = u
       /\ inbound[1].detail = PluginName(1)

(* ------------------------------------------------------------------ *)
(* lib/state/not_synced/merge_state.rs: NetworkState::merge_states      *)
(* ------------------------------------------------------------------ *)
\* an Option that is None, and the OvnConfiguration for which is_none()
\* holds
NoValue == "None"

\* the states the plugins report, over a few values of each field
NoHostName == [some |-> FALSE, running |-> NoValue, config |-> NoValue]
HostNames == {NoHostName,
              [some |-> TRUE, running |-> "h1", config |-> NoValue],
              [some |-> TRUE, running |-> NoValue, config |-> "h2"]}
InterfaceSets == {{}, {"eth0"}}
DnsValues == {NoValue, "d1", "d2"}
OvsDbValues == {NoValue, "o1"}
OvnValues == {NoValue, "n1"}

NetworkStateDefault ==
    [hostname |-> NoHostName, interfaces |-> {}, dns |-> NoValue,
     ovsdb |-> NoValue, ovn |-> NoValue, routes |-> {}, rules |-> {},
     description |-> ""]

ReportedStates ==
    {[NetworkStateDefault EXCEPT !.hostname = h, !.interfaces = i,
                                 !.dns = d, !.ovsdb = o, !.ovn = n] :
        h \in HostNames, i \in InterfaceSets, d \in DnsValues,
        o \in OvsDbValues, n \in OvnValues}

\* HostNameState::update: the parts the other state sets override
hostname_update(h, other) ==
    [some |-> TRUE,
     running |-> IF other.running # NoValue THEN other.running
                 ELSE h.running,
     config |-> IF other.config # NoValue THEN other.config ELSE h.config]

\* Interfaces::update: the interfaces of the other state are merged in
interfaces_update(ifaces, other) == ifaces \cup other

\* update_state overriding the whole-valued fields unconditionally
update_state_Always(self, other) ==
    [self EXCEPT
       !.hostname = IF other.hostname.some
                    THEN IF self.hostname.some
                         THEN hostname_update(self.hostname, other.hostname)
                         ELSE other.hostname
                    ELSE self.hostname,
       !.interfaces = interfaces_update(self.interfaces, other.interfaces),
       !.dns = other.dns,
       !.ovsdb = other.ovsdb,
       !.ovn = other.ovn]

update_state(self, other) ==
    [self EXCEPT
       !.hostname = IF other.hostname.some
                    THEN IF self.hostname.some
                         THEN hostname_update(self.hostname, other.hostname)
                         ELSE other.hostname
                    ELSE self.hostname,
       !.interfaces = interfaces_update(self.interfaces, other.interfaces),
       !.dns = IF other.dns # NoValue THEN other.dns ELSE self.dns,
       !.ovsdb = IF other.ovsdb # NoValue THEN other.ovsdb ELSE self.ovsdb,
       !.ovn = IF other.ovn # NoValue THEN other.ovn ELSE self.ovn]

StateLists ==
    UNION {[1..n -> ReportedStates] : n \in 0..MaxStates}

\* merge_states is called with a list of states: ret is the default state
InitMerge ==
    /\ InitCommander
    /\ nispor = Idle
    /\ cli = Idle
    /\ \E states \in StateLists :
          net = [pc |-> "merge", states |-> states, i |-> 1,
                 ret |-> NetworkStateDefault]

\* one iteration of the loop of merge_states
MergeUpdate ==
    /\ net.pc = "merge"
    /\ net.i <= Len(net.states)
    /\ net' = [net EXCEPT !.ret = update_state(net.ret, net.states[net.i]),
                          !.i = net.i + 1]
    /\ UNCHANGED <<cvars, nispor, cli>>

\* merge_states returns ret
MergeReturn ==
    /\ net.pc = "merge"
    /\ net.i > Len(net.states)
    /\ net' = [net EXCEPT !.pc = "merged"]
    /\ UNCHANGED <<cvars, nispor, cli>>

NextMerge == MergeUpdate \/ MergeReturn

SpecMerge == InitMerge /\ [][NextMerge]_vars

WholeValued == {"dns", "ovsdb", "ovn"}

\* the value of field f in the last of the first n states that sets it
LastSet(states, n, f) ==
    LET set == {k \in 1..n : states[k][f] # NoValue}
    IN IF set = {} THEN NoValue
       ELSE states[CHOOSE k \in set : \A j \in set : j <= k][f]

\* C16 as stated: the merged dns, ovsdb and ovn are those of the last
\* state of the list
C16_LastStateWins ==
    (net.pc = "merged" /\ net.states # <<>>) =>
       \A f \in WholeValued : net.ret[f] = net.states[Len(net.states)][f]

\* C16: merge_states folds the list in order starting from the default
\* state; after each iteration, and in the returned state, dns, ovsdb and
\* ovn each hold the value of the last state so far that sets the field
\* (a state in which the field is None overrides nothing), and the merge
\* of the empty list is the default state.
C16_LastSetStateWins ==
    net.pc \in {"merge", "merged"} =>
       /\ \A f \in WholeValued :
             net.ret[f] = LastSet(net.states, net.i - 1, f)
       /\ net.pc = "merged" => net.i = Len(net.states) + 1
       /\ net.states = <<>> => net.ret = NetworkStateDefault

\* the last state of the list has no dns and an earlier one has
C16_Witness ==
    /\ net.pc = "merged"
    /\ Len(net.states) = MaxStates
    /\ net.states[Len(net.states)].dns = NoValue
    /\ net.states[1].dns # NoValue
    /\ net.ret.dns = net.states[1].dns

(* ------------------------------------------------------------------ *)
(* lib/state/not_synced/merge_state.rs: NetworkState::gen_diff          *)
(* ------------------------------------------------------------------ *)
Descriptions == {"", "a"}
RouteSets == {{}, {"r1"}}
RuleSets == {{}, {"u1"}}

\* the fields of which gen_diff asks the merged state is_changed()
ChangeReported == {"dns", "hostname", "ovsdb", "ovn"}

\* what MergedNetworkState::new(desired, current, false, false) gives and
\* what its parts answer: new succeeds or fails, each of dns, hostname,
\* ovsdb and ovn says whether it is changed, the interfaces give their
\* difference or fail, the routes and rules give their difference
MergedStates ==
    [ok : BOOLEAN, changed : SUBSET ChangeReported,
     interfaces : [ok : BOOLEAN, diff : InterfaceSets],
     routes : RouteSets, rules : RuleSets]

DesiredStates ==
    {[NetworkStateDefault EXCEPT !.hostname = h, !.dns = d, !.ovsdb = o,
                                 !.ovn = n, !.description = t] :
        h \in HostNames, d \in DnsValues, o \in OvsDbValues,
        n \in OvnValues, t \in Descriptions}

CurrentStates ==
    {[NetworkStateDefault EXCEPT !.description = t] : t \in Descriptions}

\* gen_diff copying the dns of the desired state without asking
gen_diff_CopyDns(self, current, merged_state) ==
    IF ~merged_state.ok
    THEN [ok |-> FALSE, err |-> "new", state |-> NetworkStateDefault]
    ELSE IF ~merged_state.interfaces.ok
    THEN [ok |-> FALSE, err |-> "interfaces", state |-> NetworkStateDefault]
    ELSE [ok |-> TRUE, err |-> "",
          state |->
            [NetworkStateDefault EXCEPT
               !.interfaces = merged_state.interfaces.diff,
               !.dns = self.dns,
               !.hostname = IF "hostname" \in merged_state.changed
                            THEN self.hostname ELSE @,
               !.routes = merged_state.routes,
               !.rules = merged_state.rules,
               !.description = IF self.description # current.description
                               THEN self.description ELSE @,
               !.ovsdb = IF "ovsdb" \in merged_state.changed
                         THEN self.ovsdb ELSE @,
               !.ovn = IF "ovn" \in merged_state.changed
                       THEN self.ovn ELSE @]]

gen_diff(self, current, merged_state) ==
    IF ~merged_state.ok
    THEN [ok |-> FALSE, err |-> "new", state |-> NetworkStateDefault]
    ELSE IF ~merged_state.interfaces.ok
    THEN [ok |-> FALSE, err |-> "interfaces", state |-> NetworkStateDefault]
    ELSE [ok |-> TRUE, err |-> "",
          state |->
            [NetworkStateDefault EXCEPT
               !.interfaces = merged_state.interfaces.diff,
               !.dns = IF "dns" \in merged_state.changed
                       THEN self.dns ELSE @,
               !.hostname = IF "hostname" \in merged_state.changed
                            THEN self.hostname ELSE @,
               !.routes = merged_state.routes,
               !.rules = merged_state.rules,
               !.description = IF self.description # current.description
                               THEN self.description ELSE @,
               !.ovsdb = IF "ovsdb" \in merged_state.changed
                         THEN self.ovsdb ELSE @,
               !.ovn = IF "ovn" \in merged_state.changed
                       THEN self.ovn ELSE @]]

\* desired.gen_diff(current) is called
InitDiff ==
    /\ InitCommander
    /\ nispor = Idle
    /\ cli = Idle
    /\ \E desired \in DesiredStates, current \in CurrentStates,
          merged_state \in MergedStates :
          net = [pc |-> "diff", desired |-> desired, current |-> current,
                 merged_state |-> merged_state,
                 result |-> [ok |-> TRUE, err |-> "",
                             state |-> NetworkStateDefault]]

\* gen_diff returns
DiffReturn ==
    /\ net.pc = "diff"
    /\ net' = [net EXCEPT
          !.pc = "diffed",
          !.result = gen_diff(net.desired, net.current, net.merged_state)]
    /\ UNCHANGED <<cvars, nispor, cli>>

NextDiff == DiffReturn

SpecDiff == InitDiff /\ [][NextDiff]_vars

DiffFields == {"hostname", "interfaces", "dns", "ovsdb", "ovn", "routes",
               "rules", "description"}

\* the fields the merged state reports a change of: those whose
\* is_changed() holds and those with a difference of their own
Reported(merged_state) ==
    merged_state.changed
       \cup (IF merged_state.interfaces.diff # {} THEN {"interfaces"} ELSE {})
       \cup (IF merged_state.routes # {} THEN {"routes"} ELSE {})
       \cup (IF merged_state.rules # {} THEN {"rules"} ELSE {})

\* C17 as stated: every field the merged state does not report as changed
\* is left at its default in the diff
C17_OnlyReportedFields ==
    (net.pc = "diffed" /\ net.result.ok) =>
       \A f \in DiffFields :
          f \notin Reported(net.merged_state) =>
             net.result.state[f] = NetworkStateDefault[f]

\* C17: gen_diff fails exactly when MergedNetworkState::new or the
\* interface difference fails (with the error of the first of the two);
\* otherwise dns, hostname, ovsdb and ovn are each the desired value when
\* the merged state reports the field changed and the default when not,
\* interfaces, routes and rules are the differences the merged state
\* computes, and description is the desired description when it differs
\* from the current one, whatever the merged state reports.
C17_DiffByField ==
    net.pc = "diffed" =>
       /\ net.result.ok <=>
             (net.merged_state.ok /\ net.merged_state.interfaces.ok)
       /\ ~net.merged_state.ok => net.result.err = "new"
       /\ (net.merged_state.ok /\ ~net.merged_state.interfaces.ok) =>
             net.result.err = "interfaces"
       /\ net.result.ok =>
             /\ \A f \in ChangeReported :
                   net.result.state[f] =
                      IF f \in net.merged_state.changed
                      THEN net.desired[f] ELSE NetworkStateDefault[f]
             /\ net.result.state.interfaces = net.merged_state.interfaces.diff
             /\ net.result.state.routes = net.merged_state.routes
             /\ net.result.state.rules = net.merged_state.rules
             /\ net.result.state.description =
                   IF net.desired.description # net.current.description
                   THEN net.desired.description
                   ELSE NetworkStateDefault.description

\* the description is in the diff although the merged state reports no
\* change at all
C17_Witness ==
    /\ net.pc = "diffed"
    /\ net.result.ok
    /\ Reported(net.merged_state) = {}
    /\ net.desired.dns # NoValue
    /\ net.result.state.dns = NoValue
    /\ net.result.state.description = "a"

(* ------------------------------------------------------------------ *)
(* lib/state/not_synced/merge_state.rs: MergedNetworkState::verify      *)
(* ------------------------------------------------------------------ *)
\* the verifications in the order verify calls them
VerifyOrder == <<"hostname", "interfaces", "routes", "rules", "dns",
                 "ovsdb", "ovn">>
Checks == {VerifyOrder[k] : k \in DOMAIN VerifyOrder}

\* what one verification returns: Ok(()) or an error of some kind
CheckOutcomes == {"Ok", "VerificationError", "Bug"}

\* a verification that fails is remembered but the next one still runs
verify_check_KeepsGoing(v) ==
    LET check == VerifyOrder[v.next]
        outcome == v.outcomes[check]
    IN [v EXCEPT !.ran = Append(v.ran, check),
                 !.next = v.next + 1,
                 !.result = IF outcome = "Ok" THEN @
                            ELSE <<check, outcome>>]

\* one `?` of verify: the next verification runs, and its error returns
verify_check(v) ==
    LET check == VerifyOrder[v.next]
        outcome == v.outcomes[check]
    IN IF outcome = "Ok"
       THEN [v EXCEPT !.ran = Append(v.ran, check), !.next = v.next + 1]
       ELSE [v EXCEPT !.ran = Append(v.ran, check),
                      !.pc = "verified",
                      !.result = <<check, outcome>>]

\* merged_state.verify(current) is called; what each verification will
\* find is any combination
InitVerify ==
    /\ InitCommander
    /\ nispor = Idle
    /\ cli = Idle
    /\ \E outcomes \in [Checks -> CheckOutcomes],
          desired \in {d \in DesiredStates : d.hostname = NoHostName
                                             /\ d.description = ""
                                             /\ d.ovsdb = NoValue
                                             /\ d.ovn = NoValue},
          current \in CurrentStates :
          net = [pc |-> "verify", outcomes |-> outcomes,
                 merged_state |-> [desired |-> desired],
                 current |-> current,
                 next |-> 1, ran |-> <<>>, result |-> <<>>]

VerifyCheck ==
    /\ net.pc = "verify"
    /\ net.next <= Len(VerifyOrder)
    /\ net' = verify_check(net)
    /\ UNCHANGED <<cvars, nispor, cli>>

\* the final Ok(())
VerifyReturn ==
    /\ net.pc = "verify"
    /\ net.next > Len(VerifyOrder)
    /\ net' = [net EXCEPT !.pc = "verified", !.result = <<"Ok">>]
    /\ UNCHANGED <<cvars, nispor, cli>>

NextVerify == VerifyCheck \/ VerifyReturn

SpecVerify == InitVerify /\ [][NextVerify]_vars

\* the order the verifications are to run in
StatedOrder == <<"hostname", "interfaces", "routes", "rules", "dns",
                 "ovsdb", "ovn">>

Failing(outcomes) == {k \in DOMAIN StatedOrder :
                         outcomes[StatedOrder[k]] # "Ok"}
FirstFailing(outcomes) ==
    CHOOSE k \in Failing(outcomes) : \A j \in Failing(outcomes) : k <= j

\* C19: verify runs the hostname, interfaces, routes, rules, dns, ovsdb
\* and ovn verifications in this order; it returns Ok exactly when all
\* seven succeed, and otherwise returns the error of the first one that
\* fails, having run none of the later ones; the merged state and current
\* are the same after every step.
C19_FirstFailure ==
    [][net.pc = "verify" =>
         /\ net'.merged_state = net.merged_state
         /\ net'.current = net.current
         /\ net'.outcomes = net.outcomes
         /\ net'.ran = SubSeq(StatedOrder, 1, Len(net'.ran))
         /\ net'.pc = "verify" =>
               \A k \in 1..Len(net'.ran) :
                  net.outcomes[StatedOrder[k]] = "Ok"
         /\ net'.pc = "verified" =>
               IF Failing(net.outcomes) = {}
               THEN /\ net'.result = <<"Ok">>
                    /\ Len(net'.ran) = Len(StatedOrder)
               ELSE /\ net'.result =
                         <<StatedOrder[FirstFailing(net.outcomes)],
                           net.outcomes[StatedOrder[
                                           FirstFailing(net.outcomes)]]>>
                    /\ Len(net'.ran) = FirstFailing(net.outcomes)
      ]_vars

\* the rules verification failed and a later one would have failed too
C19_Witness ==
    /\ net.pc = "verified"
    /\ net.result = <<"rules", "VerificationError">>
    /\ net.outcomes["ovsdb"] = "Bug"
    /\ net.ran = <<"hostname", "interfaces", "routes", "rules">>

(* ------------------------------------------------------------------ *)
(* cli/show.rs: ShowCommand::handle                                     *)
(* ------------------------------------------------------------------ *)
\* the error of the flag check: a CLI error whose message names the two
\* options
UsageError == [kind |-> "Cli", names |-> {"--diff", "--saved"}]
ConnectionError == [kind |-> "Connection", names |-> {}]
DaemonError == [kind |-> "Daemon", names |-> {}]
DiffError == [kind |-> "Diff", names |-> {}]
YamlError == [kind |-> "Yaml", names |-> {}]
NoError == [kind |-> "", names |-> {}]

\* the states the daemon answers with
RunningStates == {d \in DesiredStates : /\ d.hostname = NoHostName
                                        /\ d.ovsdb = NoValue
                                        /\ d.ovn = NoValue
                                        /\ d.description = ""
                                        /\ d.dns # "d2"}
\* what building the merged state of the two answers gives
ShowMergedStates == {m \in MergedStates : /\ m.changed \subseteq {"dns"}
                                          /\ m.interfaces.diff = {}
                                          /\ m.routes = {}
                                          /\ m.rules = {}}

\* the command line and its environment: the two flags, whether the
\* daemon can be connected to, whether it answers the first and the second
\* query with a state or an error, and whether the state serialises
InitShow ==
    /\ InitCommander
    /\ nispor = Idle
    /\ net = Idle
    /\ \E diff \in BOOLEAN, saved \in BOOLEAN, reachable \in BOOLEAN,
          answers \in [1..2 -> BOOLEAN], yaml \in BOOLEAN,
          running \in RunningStates, stored \in CurrentStates,
          merged_state \in ShowMergedStates :
          cli = [pc |-> "connect", diff |-> diff, saved |-> saved,
                 reachable |-> reachable, answers |-> answers,
                 yaml |-> yaml, running |-> running, stored |-> stored,
                 merged_state |-> merged_state,
                 connected |-> FALSE, sent |-> <<>>, got |-> <<>>,
                 net_state |-> NetworkStateDefault,
                 err |-> NoError, out |-> <<>>]

\* NipartConnection::new().await?
ShowConnect ==
    /\ cli.pc = "connect"
    /\ cli' = IF cli.reachable
              THEN [cli EXCEPT !.pc = "flags", !.connected = TRUE]
              ELSE [cli EXCEPT !.pc = "failed", !.err = ConnectionError]
    /\ UNCHANGED <<cvars, nispor, net>>

\* the check of the two flags with the diff path as the default
ShowFlags_DefaultDiff ==
    /\ cli.pc = "flags"
    /\ cli' = IF cli.diff /\ cli.saved
              THEN [cli EXCEPT !.pc = "failed", !.err = UsageError]
              ELSE IF cli.saved THEN [cli EXCEPT !.pc = "query_saved"]
              ELSE [cli EXCEPT !.pc = "query_post_last_commit"]
    /\ UNCHANGED <<cvars, nispor, net>>

\* the check of the two flags and the choice of the query
ShowFlags ==
    /\ cli.pc = "flags"
    /\ cli' = IF cli.diff /\ cli.saved
              THEN [cli EXCEPT !.pc = "failed", !.err = UsageError]
              ELSE IF cli.saved THEN [cli EXCEPT !.pc = "query_saved"]
              ELSE IF cli.diff
              THEN [cli EXCEPT !.pc = "query_post_last_commit"]
              ELSE [cli EXCEPT !.pc = "query_saved"]
    /\ UNCHANGED <<cvars, nispor, net>>

\* the state the daemon holds for a query option
Answer(c, option) == IF option = "running" THEN c.running ELSE c.stored

\* a query whose error is dropped: the default state takes the place of
\* the answer
query_net_state_IgnoresError(c, option, then) ==
    LET n == Len(c.sent) + 1
    IN [c EXCEPT !.sent = Append(@, option),
                 !.got = Append(@, IF c.answers[n] THEN Answer(c, option)
                                   ELSE NetworkStateDefault),
                 !.pc = then]

\* conn.query_net_state(option).await?
query_net_state(c, option, then) ==
    LET n == Len(c.sent) + 1
    IN IF c.answers[n]
       THEN [c EXCEPT !.sent = Append(@, option),
                      !.got = Append(@, Answer(c, option)),
                      !.pc = then]
       ELSE [c EXCEPT !.sent = Append(@, option),
                      !.pc = "failed", !.err = DaemonError]

\* the query of the --saved and of the no-flag branch
ShowQuerySaved ==
    /\ cli.pc = "query_saved"
    /\ \E c \in {query_net_state(cli, "saved", "print")} :
          cli' = IF c.pc = "print"
                 THEN [c EXCEPT !.net_state = c.got[Len(c.got)]]
                 ELSE c
    /\ UNCHANGED <<cvars, nispor, net>>

\* get_diff_state: the first query
ShowQueryPostLastCommit ==
    /\ cli.pc = "query_post_last_commit"
    /\ cli' = query_net_state(cli, "post_last_commit", "query_running")
    /\ UNCHANGED <<cvars, nispor, net>>

\* get_diff_state: the second query
ShowQueryRunning ==
    /\ cli.pc = "query_running"
    /\ cli' = query_net_state(cli, "running", "gen_diff")
    /\ UNCHANGED <<cvars, nispor, net>>

\* get_diff_state: cur_net_state.gen_diff(&post_commit_state)?
ShowGenDiff ==
    /\ cli.pc = "gen_diff"
    /\ \E r \in {gen_diff(cli.got[2], cli.got[1], cli.merged_state)} :
          cli' = IF r.ok
                 THEN [cli EXCEPT !.pc = "print", !.net_state = r.state]
                 ELSE [cli EXCEPT !.pc = "failed", !.err = DiffError]
    /\ UNCHANGED <<cvars, nispor, net>>

\* println!("{}", serde_yaml::to_string(&net_state)?)
ShowPrint ==
    /\ cli.pc = "print"
    /\ cli' = IF cli.yaml
              THEN [cli EXCEPT !.pc = "done", !.out = <<cli.net_state>>]
              ELSE [cli EXCEPT !.pc = "failed", !.err = YamlError]
    /\ UNCHANGED <<cvars, nispor, net>>

NextShow ==
    \/ ShowConnect
    \/ ShowFlags
    \/ ShowQuerySaved
    \/ ShowQueryPostLastCommit
    \/ ShowQueryRunning
    \/ ShowGenDiff
    \/ ShowPrint

SpecShow == InitShow /\ [][NextShow]_vars

ShowEnded == cli.pc \in {"done", "failed"}

\* C20: `show` given both --diff and --saved ends with the usage error
\* that names both flags and has sent no query, whether or not the daemon
\* is reachable.
C20_UsageErrorAlways ==
    (cli.pc # "idle" /\ ShowEnded /\ cli.diff /\ cli.saved) =>
       /\ cli.pc = "failed"
       /\ cli.err = UsageError
       /\ cli.sent = <<>>

\* what `show` without --diff ends with, for a given environment: a
\* function of the daemon and the serialisation only, not of --saved
SavedOutcome(c) ==
    IF ~c.reachable
    THEN [pc |-> "failed", err |-> ConnectionError, sent |-> <<>>,
          out |-> <<>>]
    ELSE IF ~c.answers[1]
    THEN [pc |-> "failed", err |-> DaemonError, sent |-> <<"saved">>,
          out |-> <<>>]
    ELSE IF ~c.yaml
    THEN [pc |-> "failed", err |-> YamlError, sent |-> <<"saved">>,
          out |-> <<>>]
    ELSE [pc |-> "done", err |-> NoError, sent |-> <<"saved">>,
          out |-> <<c.stored>>]

\* C21: `show` without a flag ends exactly as `show --saved` does in the
\* same environment: one QueryNetState with the saved option is sent and
\* the state returned is printed; a query of the diff path is sent only
\* when --diff is given alone, and then it is the first query sent.
C21_NoFlagIsSaved ==
    /\ (ShowEnded /\ ~cli.diff) =>
          [pc |-> cli.pc, err |-> cli.err, sent |-> cli.sent,
           out |-> cli.out] = SavedOutcome(cli)
    /\ (cli.pc # "idle" /\ cli.sent # <<>>) =>
          (cli.sent[1] = "post_last_commit" <=> (cli.diff /\ ~cli.saved))
    /\ (cli.pc # "idle") =>
          \A k \in DOMAIN cli.sent :
             cli.sent[k] # "saved" => (cli.diff /\ ~cli.saved)

\* `show` without a flag has printed the stored state
C21_Witness ==
    /\ cli.pc = "done"
    /\ ~cli.diff /\ ~cli.saved
    /\ cli.sent = <<"saved">>
    /\ cli.out = <<cli.stored>>

\* the difference `show --diff` prints when everything succeeds
ShownDiff(c) == gen_diff(c.running, c.stored, c.merged_state)

\* C22: on the path of --diff alone, QueryNetState(post_last_commit) is
\* sent first and QueryNetState(running) only after its reply has come;
\* when the first query fails the second is never sent; something is
\* printed only when both queries and gen_diff succeeded, and it is
\* running.gen_diff(post_last_commit).
C22_DiffPath ==
    (cli.pc # "idle" /\ cli.diff /\ ~cli.saved) =>
       /\ cli.sent = SubSeq(<<"post_last_commit", "running">>, 1,
                            Len(cli.sent))
       /\ Len(cli.sent) = 2 => (cli.answers[1] /\ Len(cli.got) >= 1
                                /\ cli.got[1] = cli.stored)
       /\ ~cli.answers[1] => Len(cli.sent) <= 1
       /\ cli.out # <<>> =>
             /\ cli.answers[1] /\ cli.answers[2]
             /\ ShownDiff(cli).ok
             /\ cli.out = <<ShownDiff(cli).state>>
       /\ (ShowEnded /\ cli.reachable /\ cli.answers[1] /\ cli.answers[2]
           /\ ShownDiff(cli).ok /\ cli.yaml) =>
             (cli.pc = "done" /\ cli.out = <<ShownDiff(cli).state>>)
       /\ (ShowEnded /\ cli.reachable
           /\ ~(cli.answers[1] /\ cli.answers[2] /\ ShownDiff(cli).ok)) =>
             (cli.pc = "failed" /\ cli.out = <<>>)

\* `show --diff` has printed a difference that holds the changed dns
C22_Witness ==
    /\ cli.pc = "done"
    /\ cli.diff /\ ~cli.saved
    /\ cli.sent = <<"post_last_commit", "running">>
    /\ cli.out # <<>>
    /\ cli.out[1].dns = "d1"

(* ------------------------------------------------------------------ *)
(* plugin_nispor/apply.rs: nispor_apply_dhcp_lease                      *)
(* ------------------------------------------------------------------ *)
\* the leases the DHCP plugin reports
Leases ==
    [family : {"V4", "V6"}, iface : {"eth0", "eth1"}, ip : {"ip1", "ip2"},
     prefix_length : {16, 24}, lease_time : {60, 3600}]

\* what NetConf::apply_async returns: Ok or an error of nispor
ApplyOutcomes == {"Ok", "NisporBug", "NisporInvalidArgument"}

\* format!("{}sec", seconds)
SecFormat(seconds) == <<seconds, "sec">>

\* nispor::IfaceConf::default()
IfaceConfDefault ==
    [name |-> "", state |-> "Up", iface_type |-> NoValue,
     controller |-> NoValue, ipv4 |-> NoValue, ipv6 |-> NoValue,
     mac_address |-> NoValue, veth |-> NoValue, vlan |-> NoValue]

\* a NipartError of kind PluginFailure made from an error of nispor
PluginFailure(e) == [kind |-> "PluginFailure", from |-> e]

\* a V6 lease applied as if it needed nothing
nispor_apply_dhcp_lease_V6Ok(lease, applied) ==
    IF lease.family = "V4"
    THEN [submitted |->
            <<<<[IfaceConfDefault EXCEPT
                   !.name = lease.iface,
                   !.ipv4 = [addresses |->
                               <<[address |-> lease.ip,
                                  prefix_len |-> lease.prefix_length,
                                  valid_lft |-> SecFormat(lease.lease_time),
                                  preferred_lft |->
                                     SecFormat(lease.lease_time)]>>],
                   !.state = "Up"]>>>>,
          result |-> IF applied = "Ok" THEN [kind |-> "Ok"]
                     ELSE PluginFailure(applied)]
    ELSE [submitted |-> <<>>, result |-> [kind |-> "Ok"]]

\* the lists of interface configurations submitted to nispor, and what the
\* function returns; todo!() panics
nispor_apply_dhcp_lease(lease, applied) ==
    IF lease.family = "V4"
    THEN [submitted |->
            <<<<[IfaceConfDefault EXCEPT
                   !.name = lease.iface,
                   !.ipv4 = [addresses |->
                               <<[address |-> lease.ip,
                                  prefix_len |-> lease.prefix_length,
                                  valid_lft |-> SecFormat(lease.lease_time),
                                  preferred_lft |->
                                     SecFormat(lease.lease_time)]>>],
                   !.state = "Up"]>>>>,
          result |-> IF applied = "Ok" THEN [kind |-> "Ok"]
                     ELSE PluginFailure(applied)]
    ELSE [submitted |-> <<>>, result |-> [kind |-> "Panic"]]

\* the plugin is about to apply a lease
InitLease ==
    /\ InitCommander
    /\ net = Idle
    /\ cli = Idle
    /\ \E lease \in Leases, applied \in ApplyOutcomes :
          nispor = [pc |-> "lease", lease |-> lease, applied |-> applied,
                    submitted |-> <<>>, result |-> [kind |-> ""]]

NisporApplyDhcpLease ==
    /\ nispor.pc = "lease"
    /\ \E r \in {nispor_apply_dhcp_lease(nispor.lease, nispor.applied)} :
          nispor' = [nispor EXCEPT !.pc = "leased",
                                   !.submitted = r.submitted,
                                   !.result = r.result]
    /\ UNCHANGED <<cvars, net, cli>>

NextLease == NisporApplyDhcpLease

SpecLease == InitLease /\ [][NextLease]_vars

STATE_PRIORITY == 50

\* the priority in the payload of a reply of the plugin: the two query
\* replies are built with STATE_PRIORITY, the apply reply has no payload
reply_priority(reply) ==
    IF reply.plugin \in {"QueryNetStateReply", "QueryRelatedNetStateReply"}
    THEN STATE_PRIORITY
    ELSE 0

NisporRequests == {"QueryNetState", "QueryRelatedNetState", "ApplyNetState"}

\* the handler, and the task it spawned, have finished
NisporEnded == nispor.pc \in {"done", "reported"}

\* C24: when the plugin has finished with a QueryNetState,
\* QueryRelatedNetState or ApplyNetState request, exactly one reply was
\* sent, with the uuid of the request, from Unicast (the plugin's name) to
\* Commander; a query reply carries priority 50; an apply reply is an
\* ApplyNetStateReply whose user kind is None or Error.  Any other plugin
\* event leaves no reply and no error.
C24_ExactlyOneReply ==
    (NisporEnded /\ "event" \in DOMAIN nispor) =>
       IF nispor.event.plugin \in NisporRequests
       THEN /\ Len(nispor.sent) = 1
            /\ nispor.sent[1].uuid = nispor.event.uuid
            /\ nispor.sent[1].src = "Unicast"
            /\ nispor.sent[1].dst = "Commander"
            /\ nispor.event.plugin = "QueryNetState" =>
                  /\ nispor.sent[1].plugin = "QueryNetStateReply"
                  /\ reply_priority(nispor.sent[1]) = 50
            /\ nispor.event.plugin = "QueryRelatedNetState" =>
                  /\ nispor.sent[1].plugin = "QueryRelatedNetStateReply"
                  /\ reply_priority(nispor.sent[1]) = 50
            /\ nispor.event.plugin = "ApplyNetState" =>
                  /\ nispor.sent[1].plugin = "ApplyNetStateReply"
                  /\ nispor.sent[1].user \in {"None", "Error"}
       ELSE /\ nispor.sent = <<>>
            /\ nispor.err = ""

(* ------------------------------------------------------------------ *)
(* plugin_nispor/plugin.rs: the spawned applies                         *)
(* ------------------------------------------------------------------ *)
\* the plugin events the daemon hands to the plugin one after the other;
\* the uuid of an event is its place in the list
LoopKinds == NisporRequests \cup {"QueryPluginInfo"}
LoopEvent(k, plugin) ==
    NipartEvent(k, "None", "", plugin, "Commander", "Unicast",
                DEFAULT_TIMEOUT)
LoopInboxes ==
    UNION {{[k \in 1..n |-> LoopEvent(k, kinds[k])] :
               kinds \in [1..n -> LoopKinds]} : n \in 1..MaxEvents}

InitNisporLoop ==
    /\ InitCommander
    /\ net = Idle
    /\ cli = Idle
    /\ \E inbox \in LoopInboxes :
          nispor = [pc |-> "loop", inbox |-> inbox, tasks |-> {},
                    sent |-> <<>>, failed |-> {}]

\* handle_event runs on the next event and returns; a spawned handle_apply
\* is then in progress
NisporLoopHandle ==
    /\ nispor.pc = "loop"
    /\ nispor.inbox # <<>>
    /\ \E retrieved \in BOOLEAN :
       \E r \in {handle_event(Head(nispor.inbox), retrieved)} :
          nispor' = [nispor EXCEPT
             !.inbox = Tail(@),
             !.sent = @ \o r.sends,
             !.tasks = IF r.spawn THEN @ \cup {Head(nispor.inbox)} ELSE @,
             !.failed = IF r.ok THEN @ ELSE @ \cup {Head(nispor.inbox).uuid}]
    /\ UNCHANGED <<cvars, net, cli>>

\* one of the spawned handle_apply tasks finishes and sends its reply
NisporLoopApplied ==
    /\ nispor.pc = "loop"
    /\ \E event \in nispor.tasks, applied \in {"Ok", "PluginFailure"} :
          nispor' = [nispor EXCEPT
             !.tasks = @ \ {event},
             !.sent = Append(@, handle_apply(event, applied))]
    /\ UNCHANGED <<cvars, net, cli>>

NextNisporLoop == NisporLoopHandle \/ NisporLoopApplied

SpecNisporLoop == InitNisporLoop /\ [][NextNisporLoop]_vars

LoopHandled == nispor.pc = "loop" /\ Len(nispor'.inbox) < Len(nispor.inbox)

\* C25: handle_event returns from an ApplyNetState with no reply sent and
\* the apply in progress in a task of its own, whose reply is sent when
\* the task finishes; whatever applies are in progress, the next event is
\* handled, and a query among them is answered at once; an apply is never
\* waited for by the handler, so several can be in progress together.
C25_ApplyIsSpawned ==
    [][/\ (LoopHandled /\ Head(nispor.inbox).plugin = "ApplyNetState") =>
             /\ nispor'.sent = nispor.sent
             /\ nispor'.tasks = nispor.tasks \cup {Head(nispor.inbox)}
       /\ (/\ LoopHandled
           /\ Head(nispor.inbox).plugin = "QueryNetState"
           /\ Head(nispor.inbox).uuid \notin nispor'.failed) =>
             /\ Len(nispor'.sent) = Len(nispor.sent) + 1
             /\ nispor'.sent[Len(nispor'.sent)].uuid = Head(nispor.inbox).uuid
             /\ nispor'.sent[Len(nispor'.sent)].plugin = "QueryNetStateReply"
             /\ nispor'.tasks = nispor.tasks
       /\ (nispor.pc = "loop" /\ nispor'.inbox = nispor.inbox) =>
             \E event \in nispor.tasks :
                /\ nispor'.tasks = nispor.tasks \ {event}
                /\ Len(nispor'.sent) = Len(nispor.sent) + 1
                /\ nispor'.sent[Len(nispor'.sent)].uuid = event.uuid
                /\ nispor'.sent[Len(nispor'.sent)].plugin =
                      "ApplyNetStateReply"
      ]_vars

\* a QueryNetState received after an ApplyNetState has been answered while
\* that apply and a later one are both still in progress
C25_Witness ==
    /\ nispor.pc = "loop"
    /\ Cardinality(nispor.tasks) = 2
    /\ Len(nispor.sent) = 1
    /\ nispor.sent[1].plugin = "QueryNetStateReply"
    /\ \E event \in nispor.tasks : event.uuid < nispor.sent[1].uuid

(* ------------------------------------------------------------------ *)
(* plugin_nispor/apply.rs: nispor_apply                                 *)
(* ------------------------------------------------------------------ *)
\* the interfaces of the merged state, in alphabetical order of name
IfaceNames == <<"eth1", "eth2", "x0">>
NameRank(name) == CHOOSE i \in DOMAIN IfaceNames : IfaceNames[i] = name

NoForApply == [some |-> FALSE, up_priority |-> 0, veth |-> FALSE]

\* the MergedInterface records of one name: kernel says whether it is in
\* kernel_ifaces, absent and iface_type are those of `merged` (and of
\* for_apply when there is one), peer is the veth peer named by `current`
\* when `current` is an Ethernet with a veth section
MergedInterfacesOf(name, types, veth, peer) ==
    {i \in {[name |-> name, iface_type |-> t,
             kernel |-> t # "OvsBridge",
             absent |-> a, changed |-> c, for_apply |-> f,
             peer |-> IF t = "Ethernet" /\ veth THEN peer ELSE ""] :
               t \in types, a \in BOOLEAN, c \in BOOLEAN,
               f \in {NoForApply} \cup
                     [some : {TRUE}, up_priority : {0, 1},
                      veth : BOOLEAN]} :
        i.for_apply.some =>
           /\ i.for_apply.veth = (i.iface_type = "Ethernet" /\ veth)
           /\ i.absent => i.for_apply.up_priority = 0}

\* MergedInterfaces: at most one interface of each name; eth1 and eth2 are
\* the two ends of a veth pair or two plain Ethernet interfaces
MergedInterfaceSets ==
    UNION {{e1 \cup e2 \cup x :
               e1 \in {{}} \cup {{i} : i \in MergedInterfacesOf(
                                        "eth1", {"Ethernet"}, veth, "eth2")},
               e2 \in {{}} \cup {{i} : i \in MergedInterfacesOf(
                                        "eth2", {"Ethernet"}, veth, "eth1")},
               x \in {{}} \cup {{i} : i \in MergedInterfacesOf(
                                        "x0", {"Vlan", "Unknown", "OvsBridge"},
                                        FALSE, "")}} :
           veth \in BOOLEAN}

nipart_iface_type_to_np(nms_iface_type) ==
    CASE nms_iface_type = "LinuxBridge" -> "Bridge"
      [] nms_iface_type = "Bond" -> "Bond"
      [] nms_iface_type = "Ethernet" -> "Ethernet"
      [] nms_iface_type = "Veth" -> "Veth"
      [] nms_iface_type = "Vlan" -> "Vlan"
      [] OTHER -> "Unknown"

\* the configuration handed to nispor for one interface: its name, type
\* and state (the addresses, controller and link settings of an interface
\* that is brought up are left out)
nipart_iface_to_np(merged_iface) ==
    IF ~merged_iface.for_apply.some
    THEN [ok |-> FALSE, err |-> "Bug", conf |-> IfaceConfDefault]
    ELSE [ok |-> TRUE, err |-> "",
          conf |-> [IfaceConfDefault EXCEPT
                      !.name = merged_iface.name,
                      !.iface_type =
                         IF /\ merged_iface.iface_type = "Ethernet"
                            /\ merged_iface.for_apply.veth
                         THEN "Veth"
                         ELSE nipart_iface_type_to_np(merged_iface.iface_type),
                      !.state = IF merged_iface.absent THEN "Absent"
                                ELSE "Up"]]

\* the orders in which a HashMap may yield the interfaces of a set
IterationOrders(S) ==
    {f \in [1..Cardinality(S) -> S] :
        \A j, k \in 1..Cardinality(S) : f[j] = f[k] => j = k}

\* the loop of delete_ifaces without the list of deleted veth ends
RECURSIVE DeleteLoop_NoSkip(_, _, _, _)
DeleteLoop_NoSkip(order, k, deleted_veths, np_ifaces) ==
    IF k > Len(order)
    THEN [ok |-> TRUE, err |-> "", np_ifaces |-> np_ifaces]
    ELSE IF ~order[k].absent
    THEN DeleteLoop_NoSkip(order, k + 1, deleted_veths, np_ifaces)
    ELSE IF ~nipart_iface_to_np(order[k]).ok
         THEN [ok |-> FALSE, err |-> nipart_iface_to_np(order[k]).err,
               np_ifaces |-> np_ifaces]
         ELSE DeleteLoop_NoSkip(order, k + 1, deleted_veths,
                                Append(np_ifaces,
                                       nipart_iface_to_np(order[k]).conf))

\* the loop of delete_ifaces over kernel_ifaces in one iteration order
RECURSIVE DeleteLoop(_, _, _, _)
DeleteLoop(order, k, deleted_veths, np_ifaces) ==
    IF k > Len(order)
    THEN [ok |-> TRUE, err |-> "", np_ifaces |-> np_ifaces]
    ELSE IF ~order[k].absent \/ order[k].name \in deleted_veths
    THEN DeleteLoop(order, k + 1, deleted_veths, np_ifaces)
    ELSE \* all of veth, peer and conversion of one interface
         IF ~nipart_iface_to_np(order[k]).ok
         THEN [ok |-> FALSE, err |-> nipart_iface_to_np(order[k]).err,
               np_ifaces |-> np_ifaces]
         ELSE DeleteLoop(order, k + 1,
                         IF order[k].peer # ""
                         THEN deleted_veths \cup {order[k].name, order[k].peer}
                         ELSE deleted_veths,
                         Append(np_ifaces, nipart_iface_to_np(order[k]).conf))

\* delete_ifaces dropping the error of nispor
delete_ifaces_IgnoresFailure(order, applied) ==
    LET loop == DeleteLoop(order, 1, {}, <<>>)
    IN IF ~loop.ok
       THEN [requests |-> <<>>, result |-> [kind |-> loop.err]]
       ELSE [requests |-> <<loop.np_ifaces>>, result |-> [kind |-> "Ok"]]

\* what one call did: `requests` are the lists of interface
\* configurations submitted to nispor, `result` is what is returned
delete_ifaces(order, applied) ==
    LET loop == DeleteLoop(order, 1, {}, <<>>)
    IN IF ~loop.ok
       THEN [requests |-> <<>>, result |-> [kind |-> loop.err]]
       ELSE [requests |-> <<loop.np_ifaces>>,
             result |-> IF applied = "Ok" THEN [kind |-> "Ok"]
                        ELSE PluginFailure(applied)]

\* sort_unstable_by_key on the name: the names of the set are distinct
RECURSIVE SortByName(_)
SortByName(S) ==
    IF S = {} THEN <<>>
    ELSE LET first == CHOOSE i \in S :
                         \A j \in S : NameRank(i.name) <= NameRank(j.name)
         IN <<first>> \o SortByName(S \ {first})

\* the sort key: the up_priority of for_apply, and u32::MAX, which is
\* above every priority used here, for an interface without for_apply
UpKey(iface) ==
    IF iface.for_apply.some THEN <<0, iface.for_apply.up_priority>>
    ELSE <<1, 0>>
KeyLess(a, b) == a[1] < b[1] \/ (a[1] = b[1] /\ a[2] < b[2])

\* the sort on the priority left out
StableSortByKey_Skipped(seq) == seq

\* sort_by_key on the priority: a stable sort
RECURSIVE StableSortByKey(_)
StableSortByKey(seq) ==
    IF seq = <<>> THEN <<>>
    ELSE LET least == CHOOSE k \in DOMAIN seq :
                         /\ \A j \in DOMAIN seq :
                               ~KeyLess(UpKey(seq[j]), UpKey(seq[k]))
                         /\ \A j \in 1..(k - 1) :
                               KeyLess(UpKey(seq[k]), UpKey(seq[j]))
         IN <<seq[least]>>
               \o StableSortByKey(SubSeq(seq, 1, least - 1)
                                     \o SubSeq(seq, least + 1, Len(seq)))

\* the conversion of the interfaces of the second request, in order
RECURSIVE ConvertAll(_, _, _)
ConvertAll(seq, k, np_ifaces) ==
    IF k > Len(seq)
    THEN [ok |-> TRUE, err |-> "", np_ifaces |-> np_ifaces]
    ELSE IF seq[k].iface_type = "Unknown" \/ seq[k].absent
    THEN ConvertAll(seq, k + 1, np_ifaces)
    ELSE IF ~nipart_iface_to_np(seq[k]).ok
    THEN [ok |-> FALSE, err |-> nipart_iface_to_np(seq[k]).err,
          np_ifaces |-> np_ifaces]
    ELSE ConvertAll(seq, k + 1,
                    Append(np_ifaces, nipart_iface_to_np(seq[k]).conf))

\* the second half of nispor_apply: the changed interfaces
apply_changed(ifaces, applied) ==
    LET sorted == StableSortByKey(SortByName({i \in ifaces : i.changed}))
        conv == ConvertAll(sorted, 1, <<>>)
    IN IF ~conv.ok
       THEN [requests |-> <<>>, result |-> [kind |-> conv.err]]
       ELSE [requests |-> <<conv.np_ifaces>>,
             result |-> IF applied = "Ok" THEN [kind |-> "Ok"]
                        ELSE PluginFailure(applied)]

\* nispor_apply is called with a merged state; what set_running_hostname
\* and the two calls of nispor will answer is any combination
InitApply ==
    /\ InitCommander
    /\ net = Idle
    /\ cli = Idle
    /\ \E hostname \in {NoValue, "h1"}, ifaces \in MergedInterfaceSets,
          hostname_ok \in BOOLEAN, deleted \in {"Ok", "NisporBug"},
          applied \in {"Ok", "NisporBug"} :
          /\ hostname = NoValue => hostname_ok
          /\ nispor = [pc |-> "hostname", hostname |-> hostname,
                       ifaces |-> ifaces, hostname_ok |-> hostname_ok,
                       deleted |-> deleted, applied |-> applied,
                       hostname_set |-> NoValue, requests |-> <<>>,
                       result |-> [kind |-> ""]]

\* set_running_hostname(hostname)? when a running hostname is desired
ApplyHostname ==
    /\ nispor.pc = "hostname"
    /\ nispor' =
          IF nispor.hostname = NoValue
          THEN [nispor EXCEPT !.pc = "delete"]
          ELSE IF nispor.hostname_ok
          THEN [nispor EXCEPT !.pc = "delete",
                              !.hostname_set = nispor.hostname]
          ELSE [nispor EXCEPT !.pc = "applied",
                              !.result = [kind |-> "HostnameFailure"]]
    /\ UNCHANGED <<cvars, net, cli>>

\* delete_ifaces(&merged_state.interfaces).await?
ApplyDelete ==
    /\ nispor.pc = "delete"
    /\ \E order \in IterationOrders({i \in nispor.ifaces : i.kernel}) :
       \E r \in {delete_ifaces(order, nispor.deleted)} :
          nispor' = IF r.result.kind = "Ok"
                    THEN [nispor EXCEPT !.pc = "changed",
                                        !.requests = @ \o r.requests]
                    ELSE [nispor EXCEPT !.pc = "applied",
                                        !.requests = @ \o r.requests,
                                        !.result = r.result]
    /\ UNCHANGED <<cvars, net, cli>>

\* the changed interfaces are sorted, converted and submitted
ApplyChanged ==
    /\ nispor.pc = "changed"
    /\ \E r \in {apply_changed(nispor.ifaces, nispor.applied)} :
          nispor' = [nispor EXCEPT !.pc = "applied",
                                   !.requests = @ \o r.requests,
                                   !.result = r.result]
    /\ UNCHANGED <<cvars, net, cli>>

NextApply == ApplyHostname \/ ApplyDelete \/ ApplyChanged

SpecApply == InitApply /\ [][NextApply]_vars

\* the interface of the merged state with a given name
IfaceNamed(name) == CHOOSE i \in nispor.ifaces : i.name = name
ConfNames(request) == {request[k].name : k \in DOMAIN request}

\* C26: the running hostname is set, when one is desired, before any
\* request is submitted; at most two requests are submitted; the first
\* holds only deletions of absent kernel interfaces; the second holds,
\* each once and in state Up, exactly the changed interfaces that are
\* neither absent nor of unknown type, in ascending order of up_priority
\* and, for equal priorities, in alphabetical order of name; a call that
\* succeeds has submitted both.
C26_ApplyOrder ==
    nispor.pc \in {"hostname", "delete", "changed", "applied"} =>
       /\ nispor.hostname_set \in {NoValue, nispor.hostname}
       /\ nispor.pc = "hostname" =>
             (nispor.requests = <<>> /\ nispor.hostname_set = NoValue)
       /\ (nispor.pc # "hostname" /\ nispor.result.kind # "HostnameFailure")
             => nispor.hostname_set = nispor.hostname
       /\ nispor.requests # <<>> => nispor.hostname_set = nispor.hostname
       /\ Len(nispor.requests) <= 2
       /\ nispor.pc \in {"hostname", "delete"} => nispor.requests = <<>>
       /\ nispor.pc = "changed" => Len(nispor.requests) = 1
       /\ (nispor.pc = "applied" /\ nispor.result.kind = "Ok") =>
             Len(nispor.requests) = 2
       /\ Len(nispor.requests) >= 1 =>
             \A k \in DOMAIN nispor.requests[1] :
                /\ nispor.requests[1][k].state = "Absent"
                /\ \E i \in nispor.ifaces :
                      /\ i.name = nispor.requests[1][k].name
                      /\ i.kernel /\ i.absent
       /\ Len(nispor.requests) = 2 =>
             LET request == nispor.requests[2]
             IN /\ ConfNames(request) =
                      {i.name : i \in {i \in nispor.ifaces :
                                          /\ i.changed /\ ~i.absent
                                          /\ i.iface_type # "Unknown"}}
                /\ \A k \in DOMAIN request : request[k].state = "Up"
                /\ \A j, k \in DOMAIN request :
                      j < k =>
                         LET pj == IfaceNamed(request[j].name)
                                      .for_apply.up_priority
                             pk == IfaceNamed(request[k].name)
                                      .for_apply.up_priority
                         IN \/ pj < pk
                            \/ /\ pj = pk
                               /\ NameRank(request[j].name)
                                     < NameRank(request[k].name)

\* the hostname was set, a deletion was submitted, and the second request
\* lists eth2 before eth1 because of its lower up_priority
C26_Witness ==
    /\ nispor.pc = "applied"
    /\ nispor.result.kind = "Ok"
    /\ nispor.hostname_set = "h1"
    /\ Len(nispor.requests) = 2
    /\ Len(nispor.requests[1]) = 1
    /\ Len(nispor.requests[2]) = 2
    /\ nispor.requests[2][1].name = "eth2"
    /\ nispor.requests[2][2].name = "eth1"

\* C27: nispor_apply returns the error of the first step that fails and
\* does nothing after it: a failed hostname leaves no request submitted; a
\* deletion that cannot be converted (no for_apply, kind Bug) leaves no
\* request, and one that nispor refuses (kind PluginFailure) leaves only
\* that request; a changed interface that cannot be converted (kind Bug)
\* leaves the deletion request as the only one, already submitted; a
\* second request that nispor refuses is a PluginFailure; Ok is returned
\* only when all three steps succeeded.
C27_StopsAtFirstFailure ==
    nispor.pc = "applied" =>
       /\ ~nispor.hostname_ok =>
             /\ nispor.result.kind = "HostnameFailure"
             /\ nispor.requests = <<>>
             /\ nispor.hostname_set = NoValue
       /\ nispor.result.kind = "HostnameFailure" => ~nispor.hostname_ok
       /\ nispor.result.kind = "Bug" =>
             /\ Len(nispor.requests) <= 1
             /\ nispor.requests = <<>> =>
                   \E i \in nispor.ifaces :
                      i.kernel /\ i.absent /\ ~i.for_apply.some
             /\ Len(nispor.requests) = 1 =>
                   /\ nispor.deleted = "Ok"
                   /\ \E i \in nispor.ifaces :
                         /\ i.changed /\ ~i.absent
                         /\ i.iface_type # "Unknown"
                         /\ ~i.for_apply.some
       /\ nispor.result.kind = "PluginFailure" =>
             \/ /\ Len(nispor.requests) = 1
                /\ nispor.deleted # "Ok"
                /\ nispor.result.from = nispor.deleted
             \/ /\ Len(nispor.requests) = 2
                /\ nispor.deleted = "Ok"
                /\ nispor.applied # "Ok"
                /\ nispor.result.from = nispor.applied
       /\ (nispor.hostname_ok /\ nispor.deleted # "Ok") =>
             /\ nispor.result.kind \in {"Bug", "PluginFailure"}
             /\ Len(nispor.requests) <= 1
       /\ nispor.result.kind = "Ok" =>
             /\ nispor.hostname_ok
             /\ nispor.deleted = "Ok"
             /\ nispor.applied = "Ok"
             /\ Len(nispor.requests) = 2
       /\ nispor.result.kind \in {"Ok", "HostnameFailure", "Bug",
                                  "PluginFailure"}

\* a changed interface could not be converted after the deletion of
\* another one had been submitted
C27_Witness ==
    /\ nispor.pc = "applied"
    /\ nispor.result.kind = "Bug"
    /\ Len(nispor.requests) = 1
    /\ Len(nispor.requests[1]) >= 1
    /\ nispor.applied = "Ok"

AbsentKernel == {i \in nispor.ifaces : i.kernel /\ i.absent}

\* C28: in the request delete_ifaces submits, in every iteration order of
\* the interfaces, each configuration is the deletion of an absent kernel
\* interface and no interface is listed twice; an absent kernel interface
\* is left out only when it is the veth peer of one that is listed; and
\* the two ends of a veth pair are never both listed.
C28_OneVethEnd ==
    (nispor.pc \in {"changed", "applied"} /\ Len(nispor.requests) >= 1) =>
       LET request == nispor.requests[1]
       IN /\ \A j, k \in DOMAIN request :
                request[j].name = request[k].name => j = k
          /\ ConfNames(request) \subseteq {i.name : i \in AbsentKernel}
          /\ \A k \in DOMAIN request : request[k].state = "Absent"
          /\ \A i \in AbsentKernel :
                \/ i.name \in ConfNames(request)
                \/ \E j \in AbsentKernel :
                      /\ j.peer = i.name
                      /\ j.name \in ConfNames(request)
          /\ \A i \in AbsentKernel :
                i.peer # "" =>
                   ~(i.name \in ConfNames(request)
                        /\ i.peer \in ConfNames(request))

\* both ends of a veth pair are absent, eth2 came first and eth1 was
\* skipped, and the absent vlan was deleted too
C28_Witness ==
    /\ nispor.pc \in {"changed", "applied"}
    /\ Len(nispor.requests) >= 1
    /\ \E i \in AbsentKernel : i.name = "eth1" /\ i.peer = "eth2"
    /\ \E i \in AbsentKernel : i.name = "eth2" /\ i.peer = "eth1"
    /\ ConfNames(nispor.requests[1]) = {"eth2", "x0"}

(* ------------------------------------------------------------------ *)
(* lib/state/not_synced/merge_state.rs: get_dhcp_changes                *)
(* ------------------------------------------------------------------ *)
\* an ipv4 or ipv6 section of for_apply: `id` says whether dhcp_client_id
\* (dhcp_duid for ipv6) is set
NoIp == [some |-> FALSE, enabled |-> FALSE, dhcp |-> NoValue, id |-> FALSE]
IpSections ==
    {NoIp} \cup [some : {TRUE}, enabled : BOOLEAN,
                 dhcp : {NoValue, "true", "false"}, id : BOOLEAN]

\* the interfaces of one name in the merged state
DhcpInterfacesOf(name) ==
    {[name |-> name, kernel |-> k, for_apply |-> f, can_have_ip |-> c,
      ipv4 |-> v4, ipv6 |-> v6] :
        k \in BOOLEAN, f \in BOOLEAN, c \in BOOLEAN,
        v4 \in IpSections, v6 \in IpSections}

\* the merged interfaces: the sections of an interface the function does
\* not look into (not in kernel_ifaces, or without for_apply) are left out
DhcpInterfaceSets ==
    {a \cup b :
       a \in {{}} \cup {{i} : i \in {i \in DhcpInterfacesOf("eth1") :
                 (~i.kernel \/ ~i.for_apply) =>
                    (i.ipv4 = NoIp /\ i.ipv6 = NoIp /\ i.can_have_ip)}},
       b \in {{}} \cup {{i} : i \in {i \in DhcpInterfacesOf("eth2") :
                 /\ (~i.kernel \/ ~i.for_apply) =>
                       (i.ipv4 = NoIp /\ i.ipv6 = NoIp /\ i.can_have_ip)
                 /\ i.ipv6 \in {NoIp, [some |-> TRUE, enabled |-> TRUE,
                                       dhcp |-> "true", id |-> FALSE]}}}}

\* DHCP enabled whenever dhcp is Some(true)
dhcp_enabled_IgnoresEnabled(ip) == ip.dhcp = "true"

\* ipv4.enabled && ipv4.dhcp == Some(true)
dhcp_enabled(ip) == ip.enabled /\ ip.dhcp = "true"

NipartDhcpConfig(family, iface, enabled) ==
    [family |-> family, iface |-> iface, enabled |-> enabled]

\* the loop of get_dhcp_changes in one iteration order of kernel_ifaces;
\* todo!() panics
RECURSIVE DhcpLoop(_, _, _)
DhcpLoop(order, k, ret) ==
    IF k > Len(order) THEN [panic |-> FALSE, ret |-> ret]
    ELSE IF ~order[k].for_apply THEN DhcpLoop(order, k + 1, ret)
    ELSE IF order[k].can_have_ip
    THEN IF order[k].ipv4.some /\ order[k].ipv4.id
         THEN [panic |-> TRUE, ret |-> ret]
         ELSE IF order[k].ipv6.some /\ order[k].ipv6.id
         THEN [panic |-> TRUE, ret |-> ret]
         ELSE DhcpLoop(order, k + 1,
                 ret \o (IF order[k].ipv4.some
                         THEN <<NipartDhcpConfig("V4", order[k].name,
                                   dhcp_enabled(order[k].ipv4))>>
                         ELSE <<>>)
                     \o (IF order[k].ipv6.some
                         THEN <<NipartDhcpConfig("V6", order[k].name,
                                   dhcp_enabled(order[k].ipv6))>>
                         ELSE <<>>))
    ELSE DhcpLoop(order, k + 1,
            ret \o <<NipartDhcpConfig("V4", order[k].name, FALSE),
                     NipartDhcpConfig("V6", order[k].name, FALSE)>>)

InitDhcp ==
    /\ InitCommander
    /\ nispor = Idle
    /\ cli = Idle
    /\ \E ifaces \in DhcpInterfaceSets :
          net = [pc |-> "dhcp", ifaces |-> ifaces, panic |-> FALSE,
                 ret |-> <<>>]

\* get_dhcp_changes runs over kernel_ifaces in some order
GetDhcpChanges ==
    /\ net.pc = "dhcp"
    /\ \E order \in IterationOrders({i \in net.ifaces : i.kernel}) :
       \E r \in {DhcpLoop(order, 1, <<>>)} :
          net' = [net EXCEPT !.pc = "dhcp_done", !.panic = r.panic,
                             !.ret = IF r.panic THEN <<>> ELSE r.ret]
    /\ UNCHANGED <<cvars, nispor, cli>>

NextDhcp == GetDhcpChanges

SpecDhcp == InitDhcp /\ [][NextDhcp]_vars

\* how many configs of one family the result holds for one interface
DhcpCount(family, name) ==
    Cardinality({k \in DOMAIN net.ret :
                    net.ret[k].family = family /\ net.ret[k].iface = name})
DhcpOf(family, name) ==
    net.ret[CHOOSE k \in DOMAIN net.ret :
               net.ret[k].family = family /\ net.ret[k].iface = name]

\* C29: get_dhcp_changes panics exactly when a kernel interface with a
\* for_apply state that can hold IP has dhcp_client_id set in its ipv4
\* section or dhcp_duid set in its ipv6 section.  Otherwise the result
\* holds configs only for kernel interfaces with a for_apply state: for
\* one that can hold IP, one V4 config exactly when the ipv4 section is
\* present, enabled iff ipv4.enabled and ipv4.dhcp == Some(true), and
\* likewise one V6 config for ipv6; for one that cannot hold IP, exactly
\* one V4 and one V6 config, both disabled.
C29_DhcpChanges ==
    net.pc = "dhcp_done" =>
       /\ net.panic <=>
             \E i \in net.ifaces :
                /\ i.kernel /\ i.for_apply /\ i.can_have_ip
                /\ \/ i.ipv4.some /\ i.ipv4.id
                   \/ i.ipv6.some /\ i.ipv6.id
       /\ ~net.panic =>
             /\ \A k \in DOMAIN net.ret :
                   \E i \in net.ifaces :
                      i.name = net.ret[k].iface /\ i.kernel /\ i.for_apply
             /\ \A i \in net.ifaces :
                   (i.kernel /\ i.for_apply) =>
                      IF i.can_have_ip
                      THEN /\ DhcpCount("V4", i.name) =
                                 IF i.ipv4.some THEN 1 ELSE 0
                           /\ i.ipv4.some =>
                                 DhcpOf("V4", i.name).enabled =
                                    (i.ipv4.enabled /\ i.ipv4.dhcp = "true")
                           /\ DhcpCount("V6", i.name) =
                                 IF i.ipv6.some THEN 1 ELSE 0
                           /\ i.ipv6.some =>
                                 DhcpOf("V6", i.name).enabled =
                                    (i.ipv6.enabled /\ i.ipv6.dhcp = "true")
                      ELSE /\ DhcpCount("V4", i.name) = 1
                           /\ DhcpCount("V6", i.name) = 1
                           /\ ~DhcpOf("V4", i.name).enabled
                           /\ ~DhcpOf("V6", i.name).enabled

\* one interface that cannot hold IP and one with DHCPv4 switched on but
\* its ipv4 section disabled
C29_Witness ==
    /\ net.pc = "dhcp_done"
    /\ ~net.panic
    /\ Len(net.ret) = 3
    /\ \E i \in net.ifaces : i.kernel /\ i.for_apply /\ ~i.can_have_ip
    /\ \E i \in net.ifaces :
          /\ i.kernel /\ i.for_apply /\ i.can_have_ip
          /\ i.ipv4.some /\ ~i.ipv4.enabled /\ i.ipv4.dhcp = "true"
          /\ ~i.ipv6.some

(* ------------------------------------------------------------------ *)
(* lib/state/query_apply/ovs.rs: MergedOvsDbGlobalConfig::verify        *)
(* ------------------------------------------------------------------ *)
\* a HashMap<String, Option<String>> as the set of its <<key, value>>
\* entries, and an Option of it
OvsMaps(keys) ==
    UNION {[ks -> {NoValue, "v1", "v2"}] : ks \in SUBSET keys}
Entries(f) == {<<k, f[k]>> : k \in DOMAIN f}
NoMap == [some |-> FALSE, map |-> {}]
SomeMap(entries) == [some |-> TRUE, map |-> entries]
OptionMaps(keys) == {NoMap} \cup {SomeMap(Entries(f)) : f \in OvsMaps(keys)}

\* OvsDbGlobalConfig
OvsDbConfigs ==
    [external_ids : OptionMaps({"k1", "k2"}), other_config : OptionMaps({"k1"})]
NoOvsDb == [some |-> FALSE, external_ids |-> NoMap, other_config |-> NoMap]
DesiredOvsDbs ==
    {NoOvsDb} \cup {[some |-> TRUE, external_ids |-> c.external_ids,
                     other_config |-> c.other_config] : c \in OvsDbConfigs}

\* OvsDbGlobalConfig::is_none: neither map is given
ovsdb_is_none(config) == ~config.external_ids.some /\ ~config.other_config.some

\* the entries of a map copied with those of value None as well
ovsdb_entries_KeepsNone(option_map) ==
    IF option_map.some THEN option_map.map ELSE {}

\* unwrap_or(&empty_map) followed by the filter_map on v.is_some()
ovsdb_entries(option_map) ==
    IF option_map.some
    THEN {e \in option_map.map : e[2] # NoValue}
    ELSE {}

\* verify: `differs` is whether get_json_value_difference finds a
\* difference between the two values it is given, which are `compared`
ovsdb_verify(desired, current, differs) ==
    IF ~desired.some
    THEN [result |-> "Ok", compared |-> <<>>]
    ELSE [result |-> IF differs THEN "VerificationError" ELSE "Ok",
          compared |->
             <<[external_ids |-> SomeMap(ovsdb_entries(desired.external_ids)),
                other_config |-> SomeMap(ovsdb_entries(desired.other_config))],
               IF ovsdb_is_none(current)
               THEN [external_ids |-> SomeMap({}),
                     other_config |-> SomeMap({})]
               ELSE current>>]

InitOvsDb ==
    /\ InitCommander
    /\ nispor = Idle
    /\ cli = Idle
    /\ \E desired \in DesiredOvsDbs, current \in OvsDbConfigs,
          differs \in BOOLEAN :
          net = [pc |-> "ovsdb", desired |-> desired, current |-> current,
                 differs |-> differs, compared |-> <<>>, result |-> ""]

OvsDbVerify ==
    /\ net.pc = "ovsdb"
    /\ \E r \in {ovsdb_verify(net.desired, net.current, net.differs)} :
          net' = [net EXCEPT !.pc = "ovsdb_done", !.result = r.result,
                             !.compared = r.compared]
    /\ UNCHANGED <<cvars, nispor, cli>>

NextOvsDb == OvsDbVerify

SpecOvsDb == InitOvsDb /\ [][NextOvsDb]_vars

\* the entries of a desired map that carry a value; none for a missing map
Valued(option_map) ==
    {e \in (IF option_map.some THEN option_map.map ELSE {}) :
        e[2] \in {"v1", "v2"}}

\* C30: verify returns Ok for every current value, comparing nothing,
\* when no ovsdb config is desired.  Otherwise it compares two values: the
\* desired external_ids and other_config, each without its entries of
\* value None and empty when the map is missing, and current, replaced by
\* two empty maps when it is none; it returns an error of kind
\* VerificationError when the comparison finds a difference and Ok when
\* it finds none.
C30_OvsDbVerify ==
    net.pc = "ovsdb_done" =>
       IF ~net.desired.some
       THEN net.result = "Ok" /\ net.compared = <<>>
       ELSE /\ Len(net.compared) = 2
            /\ net.compared[1].external_ids.some
            /\ net.compared[1].other_config.some
            /\ net.compared[1].external_ids.map
                  = Valued(net.desired.external_ids)
            /\ net.compared[1].other_config.map
                  = Valued(net.desired.other_config)
            /\ net.compared[2] =
                  IF ~net.current.external_ids.some
                     /\ ~net.current.other_config.some
                  THEN [external_ids |-> SomeMap({}),
                        other_config |-> SomeMap({})]
                  ELSE net.current
            /\ net.result = IF net.differs THEN "VerificationError"
                            ELSE "Ok"

\* a desired entry of value None and a missing other_config were compared
\* with a current value that is none, and a difference was found
C30_Witness ==
    /\ net.pc = "ovsdb_done"
    /\ net.result = "VerificationError"
    /\ net.desired.some
    /\ <<"k1", NoValue>> \in net.desired.external_ids.map
    /\ <<"k2", "v1">> \in net.desired.external_ids.map
    /\ ~net.desired.other_config.some
    /\ ~net.current.external_ids.some
    /\ ~net.current.other_config.some

(* ================================================================== *)
(* commander_thread.rs at the grain of one send: the Commander and the  *)
(* Switch joined by two bounded channels                                *)
(* ================================================================== *)
\* wire.todo      the sends the running loop iteration still has to make
\* wire.tried     the sends it has made: the event and whether send()
\*                returned Ok
\* wire.logged    how many log::warn!/log::error! lines it wrote for sends
\* wire.outbound  commander_to_switch
\* wire.holding   the event the Switch is sending on switch_to_commander
\* wire.kind, wire.before, wire.order, wire.at, wire.ok
\*                the branch select! took, the queue, the iteration order
\*                and the time it ran with, and its Result
\* pc is "send" from the moment select! takes a branch until the body of
\* the loop is through; what is recorded about an iteration is dropped
\* when it is through.
InitWire ==
    /\ inbound = <<>>
    /\ queue = WorkFlowQueueNew
    /\ clock = 0
    /\ nextTick = WORKFLOW_QUEUE_CHECK_INTERVAL
    /\ pc = "wait"
    /\ closed = FALSE
    /\ lastStep = [kind |-> "init", advanced |-> 0, replies |-> 0,
                   added |-> {}, ok |-> TRUE]
    /\ nextUuid = 1
    /\ created = [u \in Uuids |-> ""]
    /\ userSent = [u \in Uuids |-> 0]
    /\ termSent = [u \in Uuids |-> 0]
    /\ timedOut = {}
    /\ lateLog = {}
    /\ lateEvent = {}
    /\ errs = 0
    /\ nispor = Idle
    /\ net = Idle
    /\ cli = Idle
    /\ wire = [pc |-> "wire", todo |-> <<>>, tried |-> <<>>, logged |-> 0,
               outbound |-> <<>>, holding |-> NoEvent, kind |-> "init",
               before |-> WorkFlowQueueNew, order |-> <<>>, at |-> 0,
               ok |-> TRUE]

\* the kinds of the events that reach the Switch for the Commander here: a
\* user request, a DHCP lease and the reply to the request
WireUserEvent == {"None", "QueryNetState"}
WirePluginEvent == {"None", "GotDhcpLease", "QueryNetStateReply"}

\* the variables a step of the Commander at this grain leaves alone
wireRest == <<lastStep, created, userSent, termSent, timedOut, lateLog,
              lateEvent, nispor, net, cli>>

\* select! takes the tick branch: the handler runs up to its first send
WireTick ==
    /\ pc = "wait"
    /\ clock >= nextTick
    /\ nextTick' = nextTick + WORKFLOW_QUEUE_CHECK_INTERVAL
    /\ \E order \in Orders(DOMAIN queue), fail \in BOOLEAN :
          /\ fail => errs < MaxErrs
          /\ \E r \in {TickBranch(queue, clock, order, fail)} :
                /\ queue' = r.queue
                /\ errs' = IF r.ok THEN errs ELSE errs + 1
                /\ wire' = [wire EXCEPT !.todo = r.sends, !.tried = <<>>,
                                        !.logged = 0, !.kind = "tick",
                                        !.before = queue, !.order = order,
                                        !.at = clock, !.ok = r.ok]
    /\ pc' = "send"
    /\ UNCHANGED <<inbound, clock, closed, nextUuid, wireRest>>

\* select! takes the recv branch
WireRecv ==
    /\ pc = "wait"
    /\ inbound # <<>>
    /\ inbound' = Tail(inbound)
    /\ \E order \in Orders(DOMAIN queue \cup {Head(inbound).uuid}),
          fail \in BOOLEAN :
          /\ fail => errs < MaxErrs
          /\ \E r \in {RecvBranch(Head(inbound), queue, clock, order, fail)} :
                /\ queue' = r.queue
                /\ errs' = IF r.ok THEN errs ELSE errs + 1
                /\ wire' = [wire EXCEPT !.todo = r.sends, !.tried = <<>>,
                                        !.logged = 0, !.kind = "event",
                                        !.before = queue, !.order = order,
                                        !.at = clock, !.ok = r.ok]
    /\ pc' = "send"
    /\ UNCHANGED <<clock, nextTick, closed, nextUuid, wireRest>>

\* sender.send(event).await: Err once the receiver is gone, the event on
\* the channel when it has room, and no step (the task stays suspended in
\* the await) while the channel is full; an Err is logged and the
\* handler goes on
WireSend ==
    /\ pc = "send"
    /\ wire.todo # <<>>
    /\ \/ /\ closed
          /\ wire' = [wire EXCEPT
                 !.todo = Tail(@),
                 !.tried = Append(@, [event |-> Head(wire.todo),
                                      ok |-> FALSE]),
                 !.logged = @ + 1]
       \/ /\ ~closed
          /\ Len(wire.outbound) < MaxOutbound
          /\ wire' = [wire EXCEPT
                 !.todo = Tail(@),
                 !.tried = Append(@, [event |-> Head(wire.todo),
                                      ok |-> TRUE]),
                 !.outbound = Append(@, Head(wire.todo))]
    /\ UNCHANGED <<inbound, queue, clock, nextTick, pc, closed, nextUuid,
                   errs, wireRest>>

\* the body of the loop is through: back to select!
WireReturn ==
    /\ pc = "send"
    /\ wire.todo = <<>>
    /\ pc' = AfterIteration(wire.ok)
    /\ wire' = [wire EXCEPT !.tried = <<>>, !.logged = 0, !.kind = "init",
                            !.before = WorkFlowQueueNew, !.order = <<>>,
                            !.at = 0, !.ok = TRUE]
    /\ UNCHANGED <<inbound, queue, clock, nextTick, closed, nextUuid,
                   errs, wireRest>>

\* The Switch, one cooperative task: while it is not sending it either
\* receives the next event of commander_to_switch and routes it to the
\* user or to the plugins ...
SwitchTake ==
    /\ ~closed
    /\ wire.holding = NoEvent
    /\ wire.outbound # <<>>
    /\ wire' = [wire EXCEPT !.outbound = Tail(@)]
    /\ UNCHANGED <<inbound, queue, clock, nextTick, pc, closed, nextUuid,
                   errs, wireRest>>

\* ... or takes an event for the Commander from a user or a plugin: a
\* request with a fresh uuid, or a plugin event with the uuid of an
\* earlier request ...
SwitchAccept ==
    /\ ~closed
    /\ wire.holding = NoEvent
    /\ \/ /\ nextUuid <= MaxUuid
          /\ \E user \in WireUserEvent, plugin \in WirePluginEvent,
                timeout \in Timeouts :
                /\ IsRequest(user, plugin)
                /\ plugin # "None" => user = "None"
                /\ wire' = [wire EXCEPT !.holding =
                       NipartEvent(nextUuid, user, "", plugin,
                                   SenderOf(plugin), "Commander", timeout)]
          /\ nextUuid' = nextUuid + 1
       \/ /\ \E uuid \in 1..(nextUuid - 1), plugin \in WirePluginEvent :
                /\ ~IsRequest("None", plugin)
                /\ plugin # "None"
                /\ wire' = [wire EXCEPT !.holding =
                       NipartEvent(uuid, "None", "", plugin,
                                   SenderOf(plugin), "Commander",
                                   DEFAULT_TIMEOUT)]
          /\ UNCHANGED nextUuid
    /\ UNCHANGED <<inbound, queue, clock, nextTick, pc, closed, errs,
                   wireRest>>

\* ... and sends it on switch_to_commander, suspended in that send while
\* the channel is full
SwitchDeliver ==
    /\ ~closed
    /\ wire.holding # NoEvent
    /\ Len(inbound) < MaxInbound
    /\ inbound' = Append(inbound, wire.holding)
    /\ wire' = [wire EXCEPT !.holding = NoEvent]
    /\ UNCHANGED <<queue, clock, nextTick, pc, closed, nextUuid, errs,
                   wireRest>>

NextWire ==
    \/ WireTick
    \/ WireRecv
    \/ WireSend
    \/ WireReturn
    \/ SwitchTake
    \/ SwitchAccept
    \/ SwitchDeliver
    \/ SwitchClose
    \/ AdvanceTime

SpecWire == InitWire /\ [][NextWire]_vars

\* the events of the sends made, and those of them that are no log events
TriedEvents(tried) == [i \in DOMAIN tried |-> tried[i].event]
RoutingEvents(tried) ==
    TriedEvents(SelectSeq(tried, LAMBDA t : ~IsLog(t.event)))
PlacedEvents(tried) == TriedEvents(SelectSeq(tried, LAMBDA t : t.ok))
IsLogOf(ev, uuid, level) ==
    ev.user = "Log" /\ ev.detail = level /\ ev.uuid = uuid

\* C31: in every loop iteration each routing event is sent right after a
\* Debug and then a Trace log event with its uuid, on the same channel, so
\* that a routing event that is placed on the channel has these two placed
\* right before it; the routing events of a tick are those the queue
\* returned, in that order, all of them sent whatever became of the
\* earlier sends; every send that failed was logged.
C31_LogsThenEvent ==
    pc = "send" =>
       /\ \A i \in DOMAIN wire.tried :
             ~IsLog(wire.tried[i].event) =>
                /\ i >= 3
                /\ IsLogOf(wire.tried[i - 2].event,
                           wire.tried[i].event.uuid, "Debug")
                /\ IsLogOf(wire.tried[i - 1].event,
                           wire.tried[i].event.uuid, "Trace")
                /\ wire.tried[i].ok =>
                      wire.tried[i - 1].ok /\ wire.tried[i - 2].ok
       /\ \A placed \in {PlacedEvents(wire.tried)} :
             \A k \in 0..(Min(Len(placed), Len(wire.outbound)) - 1) :
                wire.outbound[Len(wire.outbound) - k]
                   = placed[Len(placed) - k]
       /\ wire.logged = Cardinality({i \in DOMAIN wire.tried :
                                       ~wire.tried[i].ok})
       /\ (wire.todo = <<>> /\ wire.kind = "tick" /\ wire.ok) =>
             \A returned \in
                   {QueueProcess(wire.before, wire.at, wire.order).events} :
                /\ RoutingEvents(wire.tried) = returned
                /\ Len(wire.tried) = 3 * Len(returned)

\* a tick whose queue returned two events is through; the Switch went
\* away after the first send, and the other five sends were made and
\* failed
C31_Witness ==
    /\ pc = "send"
    /\ wire.todo = <<>>
    /\ wire.kind = "tick"
    /\ Len(RoutingEvents(wire.tried)) = 2
    /\ wire.tried[1].ok
    /\ wire.logged = 5

\* C32: no state has the Commander suspended in a send on its full
\* outbound channel while the Switch is suspended in a send on the full
\* inbound channel of the Commander.
C32_NoMutualBlock ==
    ~ /\ pc = "send"
      /\ wire.todo # <<>>
      /\ ~closed
      /\ Len(wire.outbound) = MaxOutbound
      /\ wire.holding # NoEvent
      /\ Len(inbound) = MaxInbound
====
